---- MODULE Spec2Model ----
(***************************************************************************)
(* Chronological rating-and-backtest engine of hornets-buzz.               *)
(*                                                                         *)
(* Two replay drivers are modelled:                                        *)
(*   "B"  scripts/backtest.py        run_backtest (record-based Elo,       *)
(*        15-game window, sampled predictions)                             *)
(*   "M"  scripts/backtest_model.py  fetch_nba_games + run_backtest        *)
(*        (incremental 538-style Elo, unbounded history)                   *)
(*                                                                         *)
(* Numbers.  The scripts compute in floating point.  The model computes in *)
(* fixed point: points are held in thousandths of a point, Elo ratings in  *)
(* thousandths of an Elo point, and every division floors.  log10, 10^x    *)
(* and x^0.8 are tabulated to the same precision.                          *)
(***************************************************************************)
EXTENDS Integers, Sequences, FiniteSets, TLC

VARIABLES
    driver,        \* "B", "M": the script a behaviour runs; "elo": update_elo alone
    run_mode,      \* "single" or "pair" (two runs replayed side by side)
    fetched,       \* the game list as fetched, in arrival order
    games,         \* the list the replay loop iterates (after the sort)
    sampled,       \* backtest.py: game ids of sampled_games
    team_states,   \* team id -> TeamState
    results,       \* backtest.py: results; backtest_model.py: predictions
    idx,           \* position of the replay loop in games (1-based)
    pc,            \* "prepare", "predict", "fold", "done"
    fold_log,      \* the games folded so far, in fold order
    games2,        \* second run of a pair: its game list
    team_states2,  \* second run of a pair: its team states
    results2,      \* second run of a pair: its results
    elo_call,      \* update_elo alone: the last call, arguments and result
    odds_feed,     \* backtest.py: what the odds API answers ("none": no key)
    historical_spreads, \* backtest.py: matchup key -> market spread
    spread_cache,  \* backtest.py: matchup key -> estimated spread
    spread_cache2, \* second run of a pair: its spread_cache
    tracker,       \* track_predictions.py: the predictions of the tracker file
    today,         \* track_predictions.py: the current day
    stat_call,     \* buzzing_rigorous.py: the last call, arguments and result
    outcome        \* how the script's main ended ("running" until it has)

vars == << driver, run_mode, fetched, games, sampled, team_states, results,
           idx, pc, fold_log, games2, team_states2, results2, elo_call,
           odds_feed, historical_spreads, spread_cache, spread_cache2,
           tracker, today, stat_call, outcome >>

(***************************************************************************)
(* Bounds of the model                                                     *)
(***************************************************************************)
MaxGames == 22
\* folds of the Elo-only replay
MaxEloFolds == 2
\* days the prediction tracker is run on
MaxDay == 4
\* games in a segment handed to the confidence functions
MaxTrials == 30
\* longest win streak handed to the Buzzing prediction
MaxStreak == 11
\* games of a season handed to the league backtest
MaxLeagueGames == 5
\* largest market spread, in half-points
MaxSpread2 == 30

(***************************************************************************)
(* Program constants                                                       *)
(***************************************************************************)
ELO_INITIAL == 1500
ELO_HOME_ADVANTAGE == 70
ELO_TO_SPREAD == 28
ELO_K_FACTOR == 20
ELO_FATIGUE_PENALTY == 46
\* 2.5 points, in thousandths
NR_HOME_ADVANTAGE == 2500
\* 3.0 points, in thousandths
NR_FATIGUE_PENALTY == 3000
\* blend weights of backtest.py, in percent
ELO_WEIGHT == 55
NR_WEIGHT == 45
\* WINDOW_WEIGHTS, in percent
W_LAST4 == 40
W_LAST7 == 30
W_LAST10 == 20
W_SEASON == 10
\* backtest.py: complete_games[20:]
SKIP_GAMES == 20
\* backtest.py: games[-15:]
WINDOW_CAP == 15
\* backtest_model.py: len(games) < 4
MIN_HISTORY == 4
\* backtest.py get_elo: games_played / 82
SEASON_GAMES == 82

(***************************************************************************)
(* Arithmetic helpers                                                      *)
(***************************************************************************)
Abs(x) == IF x < 0 THEN -x ELSE x
Max(a, b) == IF a >= b THEN a ELSE b
Min(a, b) == IF a <= b THEN a ELSE b

RECURSIVE SumSeq(_)
SumSeq(s) == IF s = << >> THEN 0 ELSE Head(s) + SumSeq(Tail(s))

\* the last n elements of s (s[-n:] for 1 <= n)
LastN(s, n) == IF Len(s) <= n THEN s ELSE SubSeq(s, Len(s) - n + 1, Len(s))

\* round(x, 1) on thousandths: the nearest tenth, a half going to the even tenth
RoundTenth(x) ==
    LET q == x \div 100
        r == x % 100
    IN  IF r < 50 THEN q * 100
        ELSE IF r > 50 THEN (q + 1) * 100
        ELSE IF q % 2 = 0 THEN q * 100 ELSE (q + 1) * 100

\* log10(n) in millionths, n in 1..64
Log10Table == <<
      0, 301030, 477121, 602060, 698970, 778151, 845098, 903090,
      954243, 1000000, 1041393, 1079181, 1113943, 1146128, 1176091, 1204120,
      1230449, 1255273, 1278754, 1301030, 1322219, 1342423, 1361728, 1380211,
      1397940, 1414973, 1431364, 1447158, 1462398, 1477121, 1491362, 1505150,
      1518514, 1531479, 1544068, 1556303, 1568202, 1579784, 1591065, 1602060,
      1612784, 1623249, 1633468, 1643453, 1653213, 1662758, 1672098, 1681241,
      1690196, 1698970, 1707570, 1716003, 1724276, 1732394, 1740363, 1748188,
      1755875, 1763428, 1770852, 1778151, 1785330, 1792392, 1799341, 1806180 >>

\* 10^(r/400) in thousandths, at index r + 1, r in 0..399
Pow10Table == <<
      1000, 1006, 1012, 1017, 1023, 1029, 1035, 1041, 1047, 1053,
      1059, 1065, 1072, 1078, 1084, 1090, 1096, 1103, 1109, 1116,
      1122, 1128, 1135, 1142, 1148, 1155, 1161, 1168, 1175, 1182,
      1189, 1195, 1202, 1209, 1216, 1223, 1230, 1237, 1245, 1252,
      1259, 1266, 1274, 1281, 1288, 1296, 1303, 1311, 1318, 1326,
      1334, 1341, 1349, 1357, 1365, 1372, 1380, 1388, 1396, 1404,
      1413, 1421, 1429, 1437, 1445, 1454, 1462, 1471, 1479, 1488,
      1496, 1505, 1514, 1522, 1531, 1540, 1549, 1558, 1567, 1576,
      1585, 1594, 1603, 1613, 1622, 1631, 1641, 1650, 1660, 1669,
      1679, 1688, 1698, 1708, 1718, 1728, 1738, 1748, 1758, 1768,
      1778, 1789, 1799, 1809, 1820, 1830, 1841, 1851, 1862, 1873,
      1884, 1895, 1905, 1916, 1928, 1939, 1950, 1961, 1972, 1984,
      1995, 2007, 2018, 2030, 2042, 2054, 2065, 2077, 2089, 2101,
      2113, 2126, 2138, 2150, 2163, 2175, 2188, 2200, 2213, 2226,
      2239, 2252, 2265, 2278, 2291, 2304, 2317, 2331, 2344, 2358,
      2371, 2385, 2399, 2413, 2427, 2441, 2455, 2469, 2483, 2497,
      2512, 2526, 2541, 2556, 2570, 2585, 2600, 2615, 2630, 2645,
      2661, 2676, 2692, 2707, 2723, 2738, 2754, 2770, 2786, 2802,
      2818, 2835, 2851, 2867, 2884, 2901, 2917, 2934, 2951, 2968,
      2985, 3003, 3020, 3037, 3055, 3073, 3090, 3108, 3126, 3144,
      3162, 3181, 3199, 3217, 3236, 3255, 3273, 3292, 3311, 3330,
      3350, 3369, 3388, 3408, 3428, 3447, 3467, 3487, 3508, 3528,
      3548, 3569, 3589, 3610, 3631, 3652, 3673, 3694, 3715, 3737,
      3758, 3780, 3802, 3824, 3846, 3868, 3890, 3913, 3936, 3958,
      3981, 4004, 4027, 4050, 4074, 4097, 4121, 4145, 4169, 4193,
      4217, 4241, 4266, 4290, 4315, 4340, 4365, 4390, 4416, 4441,
      4467, 4493, 4519, 4545, 4571, 4597, 4624, 4651, 4677, 4704,
      4732, 4759, 4786, 4814, 4842, 4870, 4898, 4926, 4955, 4983,
      5012, 5041, 5070, 5099, 5129, 5158, 5188, 5218, 5248, 5278,
      5309, 5339, 5370, 5401, 5433, 5464, 5495, 5527, 5559, 5591,
      5623, 5656, 5689, 5721, 5754, 5788, 5821, 5855, 5888, 5922,
      5957, 5991, 6026, 6060, 6095, 6131, 6166, 6202, 6237, 6273,
      6310, 6346, 6383, 6419, 6457, 6494, 6531, 6569, 6607, 6645,
      6683, 6722, 6761, 6800, 6839, 6879, 6918, 6958, 6998, 7039,
      7079, 7120, 7161, 7203, 7244, 7286, 7328, 7371, 7413, 7456,
      7499, 7542, 7586, 7630, 7674, 7718, 7762, 7807, 7852, 7898,
      7943, 7989, 8035, 8082, 8128, 8175, 8222, 8270, 8318, 8366,
      8414, 8463, 8511, 8561, 8610, 8660, 8710, 8760, 8810, 8861,
      8913, 8964, 9016, 9068, 9120, 9173, 9226, 9279, 9333, 9386,
      9441, 9495, 9550, 9605, 9661, 9716, 9772, 9829, 9886, 9943 >>

\* n^0.8 in thousandths, n in 1..64
Pow08Table == <<
      1000, 1741, 2408, 3031, 3624, 4193, 4743, 5278,
      5800, 6310, 6809, 7300, 7783, 8259, 8727, 9190,
      9646, 10098, 10544, 10986, 11423, 11856, 12285, 12711,
      13133, 13551, 13967, 14379, 14788, 15195, 15599, 16000,
      16399, 16795, 17189, 17581, 17971, 18358, 18744, 19127,
      19509, 19888, 20266, 20642, 21017, 21390, 21761, 22131,
      22499, 22865, 23230, 23594, 23956, 24317, 24677, 25035,
      25392, 25748, 26102, 26456, 26808, 27159, 27509, 27858 >>

RECURSIVE TenTo(_)
TenTo(n) == IF n <= 0 THEN 1 ELSE 10 * TenTo(n - 1)

\* 10^(d/400) in thousandths, d an Elo difference in thousandths of a point
\* (read to the whole Elo point below it).  Below a thousandth the value is 0,
\* as 1 + 10^x is 1.0 for the doubles of the code once 10^x is under 2^-53;
\* above 10^6 it is held at a value whose reciprocal is under a millionth.
Pow10Of(d) ==
    LET e == d \div 1000
        q == e \div 400
        r == e % 400
    IN  IF q >= 6 THEN 2000000000
        ELSE IF q >= 0 THEN Pow10Table[r + 1] * TenTo(q)
        ELSE IF q < -4 THEN 0
        ELSE Pow10Table[r + 1] \div TenTo(-q)

(***************************************************************************)
(* backtest.py: TeamState                                                  *)
(***************************************************************************)
NewTeamStateB ==
    [ wins |-> 0, losses |-> 0,
      total_points_for |-> 0, total_points_against |-> 0,
      games |-> << >> ]

\* TeamState.point_diff, in thousandths of a point
point_diff(t) ==
    LET games_played == t.wins + t.losses
    IN  IF games_played = 0 THEN 0
        ELSE ((t.total_points_for - t.total_points_against) * 1000) \div games_played

net_rating(t) == point_diff(t)

\* gs[-window:], where gs[-0:] is the whole list
PySliceLast(gs, window) == IF window = 0 THEN gs ELSE LastN(gs, window)

\* get_rolling_net_rating of both scripts, on the list of per-game net ratings
\* (thousandths); the result is in thousandths
get_rolling_net_rating(gs, window) ==
    LET recent == IF Len(gs) >= window THEN PySliceLast(gs, window) ELSE gs
    IN  IF recent = << >> THEN 0
        ELSE SumSeq([i \in 1..Len(recent) |-> recent[i].net_rating]) \div Len(recent)

\* TeamState.get_elo, in thousandths of an Elo point
get_elo(t) ==
    LET games_played == t.wins + t.losses
        elo_from_win_pct ==
            IF t.wins <= 0 THEN 1200 * 1000
            ELSE IF t.wins >= games_played THEN 1800 * 1000
            ELSE 1504600
                 - (450 * (Log10Table[t.losses] - Log10Table[t.wins])) \div 1000
        total_point_diff == t.total_points_for - t.total_points_against
        elo_from_point_diff ==
            ELO_INITIAL * 1000
            + ((total_point_diff * 1000) \div Max(1, games_played)) * 10
        \* win_pct_weight = max(0.3, 1 - games_played / 82), as a fraction
        floor_applies == 10 * (SEASON_GAMES - games_played) < 3 * SEASON_GAMES
        w_num == IF floor_applies THEN 3 ELSE SEASON_GAMES - games_played
        w_den == IF floor_applies THEN 10 ELSE SEASON_GAMES
    IN  IF games_played = 0 THEN ELO_INITIAL * 1000
        ELSE elo_from_point_diff
             + (w_num * (elo_from_win_pct - elo_from_point_diff)) \div w_den

\* the weighted rolling net rating inside predict_spread
weighted_nr_B(t) ==
    ( get_rolling_net_rating(t.games, 4) * W_LAST4
    + get_rolling_net_rating(t.games, 7) * W_LAST7
    + get_rolling_net_rating(t.games, 10) * W_LAST10
    + net_rating(t) * W_SEASON ) \div 100

\* predict_spread: (predicted_margin, elo_component, nr_component), thousandths
predict_spread(home_team, away_team) ==
    LET elo_diff == get_elo(home_team) - get_elo(away_team)
                    + ELO_HOME_ADVANTAGE * 1000
        elo_prediction == elo_diff \div ELO_TO_SPREAD
        nr_diff == weighted_nr_B(home_team) - weighted_nr_B(away_team)
                   + NR_HOME_ADVANTAGE
        nr_prediction == nr_diff
    IN  [ predicted_margin |->
              (elo_prediction * ELO_WEIGHT + nr_prediction * NR_WEIGHT) \div 100,
          elo_component |-> elo_prediction,
          nr_component |-> nr_prediction ]

\* team_states after the lazy creation of a team's state
EnsureTeam(ts, id) ==
    IF id \in DOMAIN ts THEN ts ELSE ts @@ (id :> NewTeamStateB)

EnsureTeamsB(ts, g) == EnsureTeam(EnsureTeam(ts, g.home_team_id), g.away_team_id)

Winner(margin) ==
    IF margin > 0 THEN "home" ELSE IF margin < 0 THEN "away" ELSE "tie"

\* "push", "home" or "away" from a margin measured against the spread
AtsSide(vs_spread) ==
    IF Abs(vs_spread) < 500 THEN "push"
    ELSE IF vs_spread > 0 THEN "home" ELSE "away"

\* estimate_spread_from_teams, thousandths (negative = home favoured)
estimate_spread_from_teams(home_elo, away_elo) ==
    -((home_elo - away_elo + ELO_HOME_ADVANTAGE * 1000) \div ELO_TO_SPREAD)

\* matchup_key: "AWAY@HOME"
MatchupKey(away, home) == << away, home >>

NoSpreads == [ k \in {} |-> 0 ]

\* run_backtest, "Get or estimate the spread": the closing spread of game g
ClosingSpread(hs, cache, home_state, away_state, g) ==
    LET matchup_key == MatchupKey(g.away_team_id, g.home_team_id)
    IN  IF matchup_key \in DOMAIN hs THEN hs[matchup_key]
        ELSE IF matchup_key \in DOMAIN cache THEN cache[matchup_key]
        ELSE estimate_spread_from_teams(get_elo(home_state), get_elo(away_state))

\* spread_cache after the closing spread of game g was looked up
CacheAfter(hs, cache, home_state, away_state, g) ==
    LET matchup_key == MatchupKey(g.away_team_id, g.home_team_id)
    IN  IF matchup_key \in DOMAIN hs \/ matchup_key \in DOMAIN cache THEN cache
        ELSE cache @@ (matchup_key :>
               estimate_spread_from_teams(get_elo(home_state), get_elo(away_state)))

\* the BacktestResult of one sampled game, from the two states it reads
ResultFromB(home_state, away_state, g, closing_spread) ==
    LET p == predict_spread(home_state, away_state)
        actual_margin == g.home_pts - g.away_pts
        actual_winner == Winner(actual_margin)
        predicted_winner == Winner(p.predicted_margin)
        actual_ats == AtsSide(actual_margin * 1000 + closing_spread)
        predicted_ats == AtsSide(p.predicted_margin + closing_spread)
    IN  [ game_id |-> g.game_id,
          date |-> g.date,
          home_team |-> g.home_team_id,
          away_team |-> g.away_team_id,
          home_score |-> g.home_pts,
          away_score |-> g.away_pts,
          actual_margin |-> actual_margin,
          predicted_margin |-> RoundTenth(p.predicted_margin),
          elo_component |-> RoundTenth(p.elo_component),
          nr_component |-> RoundTenth(p.nr_component),
          actual_winner |-> actual_winner,
          predicted_winner |-> predicted_winner,
          winner_correct |-> (actual_winner = predicted_winner),
          closing_spread |-> RoundTenth(closing_spread),
          actual_ats |-> actual_ats,
          predicted_ats |-> predicted_ats,
          ats_correct |-> (actual_ats = predicted_ats \/ actual_ats = "push"),
          margin_error |-> Abs(p.predicted_margin - actual_margin * 1000),
          spread_error |-> Abs(p.predicted_margin + closing_spread) ]

\* a prediction that reads the states only after the game was folded into them
MakeResultB_AfterFold(ts, g, closing_spread) ==
    LET home_won == g.home_pts > g.away_pts
        bump(t, pf, pa, won) ==
            [ t EXCEPT !.wins = @ + (IF won THEN 1 ELSE 0),
                       !.losses = @ + (IF won THEN 0 ELSE 1),
                       !.total_points_for = @ + pf,
                       !.total_points_against = @ + pa,
                       !.games = Append(@, [ pts_for |-> pf, pts_against |-> pa,
                                             net_rating |-> (pf - pa) * 1000 ]) ]
    IN  ResultFromB(bump(ts[g.home_team_id], g.home_pts, g.away_pts, home_won),
                    bump(ts[g.away_team_id], g.away_pts, g.home_pts, ~home_won), g,
                    closing_spread)

\* run_backtest, the sampled branch: the result from the pre-game states
MakeResultB(ts, g, closing_spread) ==
    ResultFromB(ts[g.home_team_id], ts[g.away_team_id], g, closing_spread)

\* a window of the last seven games only
CapWindow_Seven(gs) == IF Len(gs) > 7 THEN LastN(gs, 7) ELSE gs

\* a window that keeps one entry too many
CapWindow_Off(gs) == IF Len(gs) > WINDOW_CAP + 1 THEN LastN(gs, WINDOW_CAP + 1) ELSE gs

\* if len(games) > 15: games = games[-15:]
CapWindow(gs) == IF Len(gs) > WINDOW_CAP THEN LastN(gs, WINDOW_CAP) ELSE gs

\* a fold in which a tied game counts for nobody
FoldTeamB_TieSkipsRecord(t, pts_for, pts_against, won) ==
    [ t EXCEPT
        !.wins = @ + (IF won THEN 1 ELSE 0),
        !.losses = @ + (IF won \/ pts_for = pts_against THEN 0 ELSE 1),
        !.total_points_for = @ + pts_for,
        !.total_points_against = @ + pts_against,
        !.games = CapWindow(Append(@, [ pts_for |-> pts_for,
                                        pts_against |-> pts_against,
                                        net_rating |-> (pts_for - pts_against) * 1000 ])) ]

\* run_backtest, the update of one team's state with a game's result
FoldTeamB(t, pts_for, pts_against, won) ==
    [ t EXCEPT
        !.wins = @ + (IF won THEN 1 ELSE 0),
        !.losses = @ + (IF won THEN 0 ELSE 1),
        !.total_points_for = @ + pts_for,
        !.total_points_against = @ + pts_against,
        !.games = CapWindow(Append(@, [ pts_for |-> pts_for,
                                        pts_against |-> pts_against,
                                        net_rating |-> (pts_for - pts_against) * 1000 ])) ]

\* run_backtest, "Update team states with game results (always, for all games)"
FoldGameB(ts, g) ==
    LET home_won == g.home_pts > g.away_pts
    IN  [ ts EXCEPT
            ![g.home_team_id] = FoldTeamB(@, g.home_pts, g.away_pts, home_won),
            ![g.away_team_id] = FoldTeamB(@, g.away_pts, g.home_pts, ~home_won) ]

(***************************************************************************)
(* backtest_model.py: TeamState, Elo                                       *)
(***************************************************************************)
\* last_game_date = None
NoDate == -1

NewTeamStateM == [ elo |-> ELO_INITIAL * 1000, games |-> << >>, last_game_date |-> NoDate ]

\* TeamState.get_weighted_net_rating, thousandths
get_weighted_net_rating(t) ==
    ( get_rolling_net_rating(t.games, 4) * W_LAST4
    + get_rolling_net_rating(t.games, 7) * W_LAST7
    + get_rolling_net_rating(t.games, 10) * W_LAST10
    + get_rolling_net_rating(t.games, Len(t.games)) * W_SEASON ) \div 100

\* TeamState.is_back_to_back; dates are day numbers
is_back_to_back(t, game_date) ==
    IF t.last_game_date = NoDate THEN FALSE
    ELSE game_date - t.last_game_date = 1

\* elo_win_probability, in millionths: 1 / (1 + 10 ** (-elo_diff / 400))
elo_win_probability(elo_diff) == 1000000000 \div (1000 + Pow10Of(-elo_diff))

\* elo_to_spread
elo_to_spread(elo_diff) == elo_diff \div ELO_TO_SPREAD

\* update_elo: elo_diff adjusted for home court
adjusted_elo_diff(winner_elo, loser_elo, winner_home) ==
    IF winner_home THEN winner_elo - loser_elo + ELO_HOME_ADVANTAGE * 1000
    ELSE winner_elo - loser_elo - ELO_HOME_ADVANTAGE * 1000

\* update_elo: mov_mult, in thousandths
mov_mult(margin, elo_diff) ==
    (Pow08Table[Abs(margin) + 3] * 1000) \div (7500 + (6 * Abs(elo_diff)) \div 1000)

\* update_elo: shift = ELO_K_FACTOR * mov_mult * (1 - expected), thousandths
elo_shift(winner_elo, loser_elo, margin, winner_home) ==
    LET elo_diff == adjusted_elo_diff(winner_elo, loser_elo, winner_home)
        expected == elo_win_probability(elo_diff)
    IN  (mov_mult(margin, elo_diff) * ((1000000 - expected) \div 10))
        \div (100000 \div ELO_K_FACTOR)

\* an update that takes from the loser only what the favourite risked
update_elo_Lopsided(winner_elo, loser_elo, margin, winner_home) ==
    LET shift == elo_shift(winner_elo, loser_elo, margin, winner_home)
    IN  << winner_elo + shift, loser_elo - shift \div 2 >>

\* update_elo: (new_winner_elo, new_loser_elo)
update_elo(winner_elo, loser_elo, margin, winner_home) ==
    LET shift == elo_shift(winner_elo, loser_elo, margin, winner_home)
    IN  << winner_elo + shift, loser_elo - shift >>

\* run_backtest: "Update Elo" then "Add to game history" for one game; the
\* net rating entered is margin / 2 in the short-history branch, margin otherwise
FoldGameM(ts, g, short_history) ==
    LET margin == g.home_pts - g.away_pts
        home_state == ts[g.home_team_id]
        away_state == ts[g.away_team_id]
        new_elo ==
            IF margin > 0
            THEN LET r == update_elo(home_state.elo, away_state.elo, margin, TRUE)
                 IN  [ home |-> r[1], away |-> r[2] ]
            ELSE LET r == update_elo(away_state.elo, home_state.elo, -margin, FALSE)
                 IN  [ home |-> r[2], away |-> r[1] ]
        nr == IF short_history THEN margin * 500 ELSE margin * 1000
    IN  [ ts EXCEPT
            ![g.home_team_id] =
                [ elo |-> new_elo.home,
                  games |-> Append(home_state.games,
                                   [ net_rating |-> nr, date |-> g.date ]),
                  last_game_date |-> g.date ],
            ![g.away_team_id] =
                [ elo |-> new_elo.away,
                  games |-> Append(away_state.games,
                                   [ net_rating |-> -nr, date |-> g.date ]),
                  last_game_date |-> g.date ] ]

\* "covered" flags: None when the game was tied
Covered(pred, actual_margin) ==
    IF actual_margin # 0 THEN IF (pred > 0) = (actual_margin > 0) THEN "True" ELSE "False"
    ELSE "None"

\* the Prediction of one game, from the two states it reads
PredictionFromM(home_state, away_state, g) ==
    LET home_b2b == is_back_to_back(home_state, g.date)
        away_b2b == is_back_to_back(away_state, g.date)
        elo_diff == home_state.elo - away_state.elo + ELO_HOME_ADVANTAGE * 1000
                    - (IF home_b2b THEN ELO_FATIGUE_PENALTY * 1000 ELSE 0)
                    + (IF away_b2b THEN ELO_FATIGUE_PENALTY * 1000 ELSE 0)
        elo_pred_spread == elo_to_spread(elo_diff)
        nr_diff == get_weighted_net_rating(home_state)
                   - get_weighted_net_rating(away_state) + NR_HOME_ADVANTAGE
                   - (IF home_b2b THEN NR_FATIGUE_PENALTY ELSE 0)
                   + (IF away_b2b THEN NR_FATIGUE_PENALTY ELSE 0)
        nr_pred_spread == nr_diff
        hybrid_pred_spread == (4 * elo_pred_spread + 6 * nr_pred_spread) \div 10
        actual_margin == g.home_pts - g.away_pts
    IN  [ game_id |-> g.game_id,
          date |-> g.date,
          home_team |-> g.home_team_id,
          away_team |-> g.away_team_id,
          spread |-> (elo_pred_spread * 8) \div 10,
          elo_pred_spread |-> elo_pred_spread,
          nr_pred_spread |-> nr_pred_spread,
          hybrid_pred_spread |-> hybrid_pred_spread,
          home_score |-> g.home_pts,
          away_score |-> g.away_pts,
          actual_margin |-> actual_margin,
          elo_error |-> Abs(elo_pred_spread - actual_margin * 1000),
          nr_error |-> Abs(nr_pred_spread - actual_margin * 1000),
          hybrid_error |-> Abs(hybrid_pred_spread - actual_margin * 1000),
          elo_covered |-> Covered(elo_pred_spread, actual_margin),
          nr_covered |-> Covered(nr_pred_spread, actual_margin),
          hybrid_covered |-> Covered(hybrid_pred_spread, actual_margin) ]

\* run_backtest, "Make Predictions": the prediction from the pre-game states
MakePredictionM(ts, g) == PredictionFromM(ts[g.home_team_id], ts[g.away_team_id], g)

\* run_backtest: "if not home_state or not away_state"
BothKnownM(ts, g) == g.home_team_id \in DOMAIN ts /\ g.away_team_id \in DOMAIN ts

\* a history test that skips only when both teams are short of games
ShortHistoryM_Both(ts, g) ==
    /\ Len(ts[g.home_team_id].games) < MIN_HISTORY
    /\ Len(ts[g.away_team_id].games) < MIN_HISTORY

\* run_backtest: "len(home_state.games) < 4 or len(away_state.games) < 4"
ShortHistoryM(ts, g) ==
    \/ Len(ts[g.home_team_id].games) < MIN_HISTORY
    \/ Len(ts[g.away_team_id].games) < MIN_HISTORY

(***************************************************************************)
(* Inputs: the fetched game lists the replays are run on                   *)
(***************************************************************************)
\* teams of nba_api's static list (teams.get_teams()), and one it does not hold
KnownTeams == { "CHA", "BOS", "NYK" }
Stranger == "XXX"

Matchup(away, home) == [ away |-> away, home |-> home ]

\* schedules repeat one of these cycles
MatchupCycles ==
    { << Matchup("CHA", "BOS"), Matchup("BOS", "CHA") >>,
      << Matchup("CHA", "BOS"), Matchup("NYK", "CHA") >>,
      << Matchup("CHA", "BOS"), Matchup("BOS", "NYK"), Matchup("NYK", "CHA") >> }

\* from game number TailFrom on, a schedule may switch to one of these
TailCycles ==
    { << Matchup("NYK", "CHA") >>,
      << Matchup(Stranger, "CHA") >>,
      << Matchup("BOS", Stranger), Matchup("BOS", "NYK") >> }

TailStarts == { MIN_HISTORY + 2, SKIP_GAMES, SKIP_GAMES + 1 }

\* final scores << home_pts, away_pts >>, repeated in cycles
ScoreCycles ==
    { << <<110, 100>> >>,
      << <<101, 101>> >>,
      << <<98, 104>>, <<110, 100>>, <<101, 101>> >>,
      << <<120, 95>>, <<98, 104>>, <<98, 104>> >>,
      << <<110, 100>>, <<101, 101>>, <<120, 95>>, <<98, 104>> >> }

\* game k is dated k plus an offset; the offsets repeat in cycles, so that
\* the fetched order is not always the date order
DateCycles == { << 0 >>, << 0, 1, 1 >>, << 3, 1, -1 >> }

Cyc(c, k) == c[((k - 1) % Len(c)) + 1]

GenGame(k, mc, tail, tail_from, sc, dc) ==
    LET m == IF k >= tail_from THEN Cyc(tail, k) ELSE Cyc(mc, k)
        s == Cyc(sc, k)
    IN  [ game_id |-> k,
          date |-> k + Cyc(dc, k),
          home_team_id |-> m.home,
          away_team_id |-> m.away,
          home_pts |-> s[1],
          away_pts |-> s[2] ]

GenGames(n, mc, tail, tail_from, sc, dc) ==
    [ k \in 1..n |-> GenGame(k, mc, tail, tail_from, sc, dc) ]

\* a season in its first days: no team has MIN_HISTORY games behind it
EarlySeason ==
    { GenGames(MIN_HISTORY, mc, << Matchup("NYK", "CHA") >>, MIN_HISTORY + 1, sc, << 0 >>) :
        mc \in MatchupCycles, sc \in ScoreCycles }

Inputs ==
    { << >> } \cup EarlySeason \cup
    { GenGames(MaxGames, mc, tail, tail_from, sc, dc) :
        mc \in MatchupCycles, tail \in TailCycles,
        tail_from \in TailStarts \cup { MaxGames + 1 },
        sc \in ScoreCycles, dc \in DateCycles }

\* sample_pct, in percent
SamplePcts == { 25, 50, 100 }

(***************************************************************************)
(* The sort by date                                                        *)
(***************************************************************************)
\* s with g entered after the last element dated no later than g
RECURSIVE InsertByDate(_, _)
InsertByDate(s, g) ==
    IF s = << >> THEN << g >>
    ELSE IF s[Len(s)].date <= g.date THEN Append(s, g)
    ELSE Append(InsertByDate(SubSeq(s, 1, Len(s) - 1), g), s[Len(s)])

RECURSIVE SortFrom(_, _)
SortFrom(sorted, rest) ==
    IF rest = << >> THEN sorted
    ELSE SortFrom(InsertByDate(sorted, Head(rest)), Tail(rest))

\* a replay of the list in the order it was fetched
SortByDate_Unsorted(gs) == gs

\* list.sort(key=lambda g: g["date"]): stable, ascending
SortByDate(gs) == SortFrom(<< >>, gs)

\* backtest.py: the game ids of eligible_games = complete_games[20:]
EligibleIds(gs) == { gs[i].game_id : i \in (SKIP_GAMES + 1)..Len(gs) }

\* backtest.py: the possible outcomes of random.sample(eligible_games, sample_size)
Samples(gs, pct) ==
    LET sample_size == (Cardinality(EligibleIds(gs)) * pct) \div 100
    IN  { S \in SUBSET EligibleIds(gs) : Cardinality(S) = sample_size }

(***************************************************************************)
(* The replay                                                              *)
(***************************************************************************)
NoTeams == [ t \in {} |-> NewTeamStateB ]

\* what the odds API answers: "none" is a run without an API key (or with
\* use_estimated_spreads), "partial" quotes some of the games of a date
OddsFeeds == { "none", "partial" }

\* the home spreads the bookmakers quote, thousandths, by game
SpreadCycle == << -10000, -5500, 6000, 3500 >>

MarketSpread(g) == Cyc(SpreadCycle, g.game_id)

\* fetch_historical_odds for one date: the games the response holds
Quoted(feed, g) ==
    /\ feed = "partial"
    /\ g.game_id % 3 # 0
    /\ g.home_team_id \in KnownTeams
    /\ g.away_team_id \in KnownTeams

\* run_backtest, "Fetch historical spreads for sampled games": the odds of
\* every date that has a sampled game, parsed by parse_spreads_from_odds and
\* merged with dict.update in date order, a later date replacing an earlier one
HistoricalSpreads(gs, smp, feed) ==
    LET dates == { gs[i].date : i \in { j \in 1..Len(gs) : gs[j].game_id \in smp } }
        fetched_at == { i \in 1..Len(gs) : gs[i].date \in dates /\ Quoted(feed, gs[i]) }
        key(i) == MatchupKey(gs[i].away_team_id, gs[i].home_team_id)
        keys == { key(i) : i \in fetched_at }
        last(k) == CHOOSE i \in fetched_at :
                     /\ key(i) = k
                     /\ \A j \in fetched_at : key(j) = k => j <= i
    IN  [ k \in keys |-> MarketSpread(gs[last(k)]) ]

Init ==
    /\ driver \in { "B", "M" }
    /\ run_mode = "single"
    /\ fetched \in Inputs
    /\ games = << >>
    /\ sampled = {}
    /\ team_states = NoTeams
    /\ results = << >>
    /\ idx = 0
    /\ pc = "prepare"
    /\ fold_log = << >>
    /\ games2 = << >>
    /\ team_states2 = NoTeams
    /\ results2 = << >>
    /\ elo_call = << >>
    /\ odds_feed \in (IF driver = "B" THEN OddsFeeds ELSE { "none" })
    /\ historical_spreads = NoSpreads
    /\ spread_cache = NoSpreads
    /\ spread_cache2 = NoSpreads
    /\ tracker = << >>
    /\ today = 0
    /\ stat_call = << >>
    /\ outcome = "running"

AfterGame(i, gs) == IF i + 1 > Len(gs) THEN "done" ELSE "predict"

\* backtest.py run_backtest up to the loop: sort, sample, empty team_states;
\* backtest_model.py: the sort that ends fetch_nba_games, then run_backtest's
\* team_states for every team of the static list
Prepare ==
    /\ pc = "prepare"
    /\ run_mode = "single"
    /\ games' = SortByDate(fetched)
    /\ IF driver = "B"
       THEN /\ \E pct \in SamplePcts : sampled' \in Samples(games', pct)
            /\ team_states' = NoTeams
       ELSE /\ sampled' = {}
            /\ team_states' = [ t \in KnownTeams |-> NewTeamStateM ]
    /\ historical_spreads' = HistoricalSpreads(games', sampled', odds_feed)
    /\ idx' = 1
    /\ pc' = AfterGame(0, games')
    /\ UNCHANGED << driver, run_mode, fetched, results, fold_log,
                    games2, team_states2, results2, elo_call,
                    odds_feed, spread_cache, spread_cache2,
                    tracker, today, stat_call, outcome >>

\* one run's prediction step for game g: the states and results after it, and
\* whether the game goes on to be folded
PredictOf(drv, ts, res, smp, g, cache) ==
    IF drv = "B"
    THEN LET ts1 == EnsureTeamsB(ts, g)
             home_state == ts1[g.home_team_id]
             away_state == ts1[g.away_team_id]
             closing_spread ==
                 ClosingSpread(historical_spreads, cache, home_state, away_state, g)
         IN  IF g.game_id \in smp
             THEN [ states |-> ts1,
                    results |-> Append(res, MakeResultB(ts1, g, closing_spread)),
                    cache |-> CacheAfter(historical_spreads, cache,
                                         home_state, away_state, g),
                    folds |-> TRUE ]
             ELSE [ states |-> ts1, results |-> res, cache |-> cache,
                    folds |-> TRUE ]
    ELSE IF ~BothKnownM(ts, g)
    THEN [ states |-> ts, results |-> res, cache |-> cache, folds |-> FALSE ]
    ELSE IF ShortHistoryM(ts, g)
    THEN [ states |-> ts, results |-> res, cache |-> cache, folds |-> TRUE ]
    ELSE [ states |-> ts, results |-> Append(res, MakePredictionM(ts, g)),
           cache |-> cache, folds |-> TRUE ]

\* one run's fold of game g
FoldOf(drv, ts, g) ==
    IF drv = "B" THEN FoldGameB(ts, g)
    ELSE FoldGameM(ts, g, ShortHistoryM(ts, g))

\* the loop body up to the prediction of games[idx]
PredictStep ==
    /\ pc = "predict"
    /\ run_mode = "single"
    /\ LET p == PredictOf(driver, team_states, results, sampled, games[idx],
                           spread_cache)
       IN  /\ team_states' = p.states
           /\ results' = p.results
           /\ spread_cache' = p.cache
           /\ IF p.folds
              THEN pc' = "fold" /\ idx' = idx
              ELSE pc' = AfterGame(idx, games) /\ idx' = idx + 1
    /\ UNCHANGED << driver, run_mode, fetched, games, sampled, fold_log,
                    games2, team_states2, results2, elo_call,
                    odds_feed, historical_spreads, spread_cache2,
                    tracker, today, stat_call, outcome >>

\* the rest of the loop body: games[idx] folded into both teams' states
FoldStep ==
    /\ pc = "fold"
    /\ run_mode = "single"
    /\ team_states' = FoldOf(driver, team_states, games[idx])
    /\ fold_log' = Append(fold_log, games[idx])
    /\ idx' = idx + 1
    /\ pc' = AfterGame(idx, games)
    /\ UNCHANGED << driver, run_mode, fetched, games, sampled, results,
                    games2, team_states2, results2, elo_call,
                    odds_feed, historical_spreads, spread_cache, spread_cache2,
                    tracker, today, stat_call, outcome >>

\* backtest_model.py: what run_backtest returns after the loop and what main
\* does with it.  With no prediction run_backtest returns the one-key dict
\* {'error': ...}, which main unpacks into three names; with predictions but
\* none whose elo_covered is not None the accuracies divide by len(valid_preds)
MainOutcomeM(gs, predictions) ==
    IF gs = << >> THEN "no_games"
    ELSE IF predictions = << >> THEN "ValueError"
    ELSE IF \A i \in 1..Len(predictions) : predictions[i].elo_covered = "None"
    THEN "ZeroDivisionError"
    ELSE "saved"

\* backtest_model.py: the end of run_backtest and the rest of main
FinishM ==
    /\ pc = "done"
    /\ run_mode = "single"
    /\ driver = "M"
    /\ outcome = "running"
    /\ outcome' = MainOutcomeM(games, results)
    /\ UNCHANGED << driver, run_mode, fetched, games, sampled, team_states, results,
                    idx, pc, fold_log, games2, team_states2, results2, elo_call,
                    odds_feed, historical_spreads, spread_cache, spread_cache2,
                    tracker, today, stat_call >>

Next == Prepare \/ PredictStep \/ FoldStep \/ FinishM

Spec == Init /\ [][Next]_vars

(***************************************************************************)
(* update_elo on its own: calls with arbitrary arguments, and the Elo part  *)
(* of the fold applied to teams that start from arbitrary ratings           *)
(***************************************************************************)
EloTeams == { "CHA", "BOS" }
EloStarts == { 1350000, 1500000, 1720000 }
EloArgs == { 1000000, 1350000, 1500000, 1720000, 2000000, 8500000 }
EloMargins == { -12, 0, 1, 7, 30 }
EloScores == { <<110, 100>>, <<98, 104>>, <<101, 101>>, <<120, 95>>, <<95, 96>> }

InitElo ==
    /\ driver = "elo"
    /\ run_mode = "single"
    /\ fetched = << >>
    /\ games = << >>
    /\ sampled = {}
    /\ team_states \in
         { [ t \in EloTeams |-> [ NewTeamStateM EXCEPT !.elo = e[t] ] ] :
             e \in [ EloTeams -> EloStarts ] }
    /\ results = << >>
    /\ idx = 0
    /\ pc = "elo"
    /\ fold_log = << >>
    /\ games2 = << >>
    /\ team_states2 = NoTeams
    /\ results2 = << >>
    /\ elo_call = << >>
    /\ odds_feed = "none"
    /\ historical_spreads = NoSpreads
    /\ spread_cache = NoSpreads
    /\ spread_cache2 = NoSpreads
    /\ tracker = << >>
    /\ today = 0
    /\ stat_call = << >>
    /\ outcome = "running"

\* one call of update_elo
EloCall ==
    /\ pc = "elo"
    /\ idx = 0
    /\ \E w \in EloArgs, l \in EloArgs, m \in EloMargins, h \in BOOLEAN :
         elo_call' = [ winner_elo |-> w, loser_elo |-> l, margin |-> m,
                       winner_home |-> h, result |-> update_elo(w, l, m, h) ]
    /\ pc' = "done"
    /\ UNCHANGED << driver, run_mode, fetched, games, sampled, team_states,
                    results, idx, fold_log, games2, team_states2, results2,
                    odds_feed, historical_spreads, spread_cache, spread_cache2,
                    tracker, today, stat_call, outcome >>

\* run_backtest's update of the team states with one game; elo_call keeps the
\* update_elo call it made, with the ratings the two states hold afterwards
EloFold ==
    /\ pc = "elo"
    /\ idx < MaxEloFolds
    /\ \E h \in EloTeams, a \in EloTeams, sc \in EloScores :
         /\ h # a
         /\ LET g == [ game_id |-> idx + 1, date |-> idx + 1,
                       home_team_id |-> h, away_team_id |-> a,
                       home_pts |-> sc[1], away_pts |-> sc[2] ]
                margin == sc[1] - sc[2]
                after == FoldGameM(team_states, g, ShortHistoryM(team_states, g))
            IN  /\ team_states' = after
                /\ fold_log' = Append(fold_log, g)
                /\ elo_call' =
                     IF margin > 0
                     THEN [ winner_elo |-> team_states[h].elo,
                            loser_elo |-> team_states[a].elo,
                            margin |-> margin, winner_home |-> TRUE,
                            result |-> << after[h].elo, after[a].elo >> ]
                     ELSE [ winner_elo |-> team_states[a].elo,
                            loser_elo |-> team_states[h].elo,
                            margin |-> -margin, winner_home |-> FALSE,
                            result |-> << after[a].elo, after[h].elo >> ]
    /\ idx' = idx + 1
    /\ UNCHANGED << driver, run_mode, fetched, games, sampled, results, pc,
                    games2, team_states2, results2,
                    odds_feed, historical_spreads, spread_cache, spread_cache2,
                    tracker, today, stat_call, outcome >>

NextElo == EloCall \/ EloFold

SpecElo == InitElo /\ [][NextElo]_vars

(***************************************************************************)
(* Two runs side by side, on game lists that agree up to some game          *)
(***************************************************************************)
PairInputs ==
    { GenGames(MaxGames, mc, << Matchup("NYK", "CHA") >>, tail_from, sc, << 0, 1, 1 >>) :
        mc \in MatchupCycles, tail_from \in { SKIP_GAMES + 1, MaxGames + 1 },
        sc \in ScoreCycles }

PairSplits == { 1, MIN_HISTORY + 1, MIN_HISTORY + 5, SKIP_GAMES + 1, MaxGames }

\* gs with the scores changed from game k on, and the teams after game k
VaryFrom(gs, k, sc2, mc2) ==
    [ j \in 1..Len(gs) |->
        IF j < k THEN gs[j]
        ELSE IF j = k
        THEN [ gs[j] EXCEPT !.home_pts = Cyc(sc2, j)[1], !.away_pts = Cyc(sc2, j)[2] ]
        ELSE [ gs[j] EXCEPT !.home_pts = Cyc(sc2, j)[1], !.away_pts = Cyc(sc2, j)[2],
                            !.home_team_id = Cyc(mc2, j).home,
                            !.away_team_id = Cyc(mc2, j).away ] ]

InitialStates(drv) ==
    IF drv = "B" THEN NoTeams ELSE [ t \in KnownTeams |-> NewTeamStateM ]

InitPair ==
    /\ driver \in { "B", "M" }
    /\ run_mode = "pair"
    /\ fetched \in PairInputs
    /\ games = SortByDate(fetched)
    /\ \E k \in PairSplits, sc2 \in ScoreCycles, mc2 \in MatchupCycles :
         /\ games2 = VaryFrom(games, k, sc2, mc2)
         /\ games2 # games
    /\ IF driver = "B"
       THEN \E pct \in { 50, 100 } : sampled \in Samples(games, pct)
       ELSE sampled = {}
    /\ team_states = InitialStates(driver)
    /\ team_states2 = InitialStates(driver)
    /\ results = << >>
    /\ results2 = << >>
    /\ idx = 1
    /\ pc = "predict"
    /\ fold_log = << >>
    /\ elo_call = << >>
    /\ odds_feed = "none"
    /\ historical_spreads = NoSpreads
    /\ spread_cache = NoSpreads
    /\ spread_cache2 = NoSpreads
    /\ tracker = << >>
    /\ today = 0
    /\ stat_call = << >>
    /\ outcome = "running"

\* one whole iteration of the loop, for one run
IterationOf(drv, ts, res, smp, g, cache) ==
    LET p == PredictOf(drv, ts, res, smp, g, cache)
    IN  [ states |-> IF p.folds THEN FoldOf(drv, p.states, g) ELSE p.states,
          results |-> p.results,
          cache |-> p.cache ]

\* both runs take the iteration for their game at position idx
PairIterate ==
    /\ pc = "predict"
    /\ run_mode = "pair"
    /\ \E r1 \in { IterationOf(driver, team_states, results, sampled, games[idx],
                                spread_cache) },
          r2 \in { IterationOf(driver, team_states2, results2, sampled, games2[idx],
                                spread_cache2) } :
           /\ team_states' = r1.states
           /\ results' = r1.results
           /\ spread_cache' = r1.cache
           /\ team_states2' = r2.states
           /\ results2' = r2.results
           /\ spread_cache2' = r2.cache
    /\ idx' = idx + 1
    /\ pc' = AfterGame(idx, games)
    /\ UNCHANGED << driver, run_mode, fetched, games, sampled, fold_log,
                    games2, elo_call, odds_feed, historical_spreads,
                    tracker, today, stat_call, outcome >>

NextPair == PairIterate

SpecPair == InitPair /\ [][NextPair]_vars

(***************************************************************************)
(* track_predictions.py: record_predictions, update_results, generate_report *)
(***************************************************************************)
None == << >>
Some(v) == << v >>

\* calculate_elo, thousandths of an Elo point; net_rating in thousandths
calculate_elo(wins, losses, tnet_rating) ==
    LET tgames == wins + losses
        elo_from_win_pct ==
            IF wins <= 0 THEN 1200 * 1000
            ELSE IF wins >= tgames THEN 1800 * 1000
            ELSE 1504600 - (450 * (Log10Table[losses] - Log10Table[wins])) \div 1000
        elo_from_nr == ELO_INITIAL * 1000 + tnet_rating * 10
        floor_applies == 10 * (SEASON_GAMES - tgames) < 3 * SEASON_GAMES
        w_num == IF floor_applies THEN 3 ELSE SEASON_GAMES - tgames
        w_den == IF floor_applies THEN 10 ELSE SEASON_GAMES
    IN  IF tgames = 0 THEN ELO_INITIAL * 1000
        ELSE elo_from_nr + (w_num * (elo_from_win_pct - elo_from_nr)) \div w_den

\* track_predictions.predict_spread, thousandths of a point
predict_spread_T(home_stats, away_stats) ==
    LET home_elo == calculate_elo(home_stats.wins, home_stats.losses,
                                  home_stats.net_rating)
        away_elo == calculate_elo(away_stats.wins, away_stats.losses,
                                  away_stats.net_rating)
        elo_diff == home_elo - away_elo + ELO_HOME_ADVANTAGE * 1000
        elo_prediction == elo_diff \div ELO_TO_SPREAD
        nr_diff == home_stats.net_rating - away_stats.net_rating + NR_HOME_ADVANTAGE
    IN  (elo_prediction * ELO_WEIGHT + nr_diff * NR_WEIGHT) \div 100

\* the scoreboard: one game a day, on some days listed in two rows
LastGameDay == MaxDay + 1

TrackerMatchups ==
    << Matchup("BOS", "CHA"), Matchup("NYK", "BOS"), Matchup("CHA", "NYK") >>

Scoreboard(day) ==
    LET row == [ game_id |-> day, date |-> day,
                 home_team_id |-> Cyc(TrackerMatchups, day).home,
                 away_team_id |-> Cyc(TrackerMatchups, day).away ]
    IN  IF day \notin 1..LastGameDay THEN << >>
        ELSE IF day % 3 = 2 THEN << row, row >>
        ELSE << row >>

\* fetch_team_stats: what the stats endpoint may answer
DefaultStats == [ wins |-> 0, losses |-> 0, net_rating |-> 0 ]

TeamStatsSets ==
    { ("CHA" :> [ wins |-> 30, losses |-> 20, net_rating |-> 4200 ])
        @@ ("BOS" :> [ wins |-> 40, losses |-> 10, net_rating |-> 8000 ]),
      ("CHA" :> [ wins |-> 20, losses |-> 30, net_rating |-> -3000 ])
        @@ ("BOS" :> [ wins |-> 25, losses |-> 25, net_rating |-> 0 ])
        @@ ("NYK" :> [ wins |-> 10, losses |-> 40, net_rating |-> -6500 ]) }

\* fetch_current_odds: home team -> spread; empty without an API key
CurrentOddsSets ==
    { NoSpreads, ("CHA" :> -5000) @@ ("BOS" :> 3500) }

\* the final scores the scoreboard may show (0: no score posted)
TrackerScoreCycles ==
    { << << 105, 100 >>, << 98, 104 >> >>,
      << << 99, 104 >>, << 0, 0 >>, << 110, 100 >> >> }

StatsOf(team_stats, id) ==
    IF id \in DOMAIN team_stats THEN team_stats[id] ELSE DefaultStats

\* record_predictions: the prediction dict of one upcoming game
NewPrediction(g, team_stats, current_odds) ==
    LET predicted_margin == predict_spread_T(StatsOf(team_stats, g.home_team_id),
                                             StatsOf(team_stats, g.away_team_id))
        actual_spread == IF g.home_team_id \in DOMAIN current_odds
                         THEN Some(current_odds[g.home_team_id]) ELSE None
    IN  [ game_id |-> g.game_id,
          date |-> g.date,
          home_team |-> g.home_team_id,
          away_team |-> g.away_team_id,
          predicted_margin |-> RoundTenth(predicted_margin),
          actual_spread |-> actual_spread,
          has_real_spread |-> actual_spread # None,
          result |-> "None",
          home_score |-> None,
          away_score |-> None,
          actual_margin |-> None,
          su_correct |-> "None",
          ats_correct |-> "None" ]

\* a recording that does not look at what the tracker holds
RecordGames_Blind(preds, gs, team_stats, current_odds) ==
    preds \o [ i \in 1..Len(gs) |-> NewPrediction(gs[i], team_stats, current_odds) ]

\* record_predictions: the loop over the games of the next three days
RECURSIVE RecordGames(_, _, _, _)
RecordGames(preds, gs, team_stats, current_odds) ==
    IF gs = << >> THEN preds
    ELSE LET g == Head(gs)
             existing == { i \in 1..Len(preds) : preds[i].game_id = g.game_id }
         IN  RecordGames(IF existing # {} THEN preds
                         ELSE Append(preds, NewPrediction(g, team_stats, current_odds)),
                         Tail(gs), team_stats, current_odds)

Bool3(b) == IF b THEN "True" ELSE "False"

\* update_results: one pending prediction whose game is final with scores
CompletePrediction(pred, home_score, away_score) ==
    LET actual_margin == home_score - away_score
        su_correct == \/ (pred.predicted_margin > 0 /\ actual_margin > 0)
                      \/ (pred.predicted_margin < 0 /\ actual_margin < 0)
        ats_correct ==
            IF pred.actual_spread # None
            THEN LET cover_margin == actual_margin * 1000 + pred.actual_spread[1]
                     pred_cover == pred.predicted_margin + pred.actual_spread[1]
                 IN  Bool3(\/ (pred_cover > 0 /\ cover_margin > 0)
                           \/ (pred_cover < 0 /\ cover_margin < 0))
            ELSE "None"
    IN  [ pred EXCEPT !.home_score = Some(home_score),
                      !.away_score = Some(away_score),
                      !.actual_margin = Some(actual_margin),
                      !.su_correct = Bool3(su_correct),
                      !.ats_correct = ats_correct,
                      !.result = "complete" ]

\* an update that also takes the games dated today
UpdatePending_Today(preds, day, sc, lag) ==
    [ i \in 1..Len(preds) |->
        LET pred == preds[i]
            score == Cyc(sc, pred.game_id)
        IN  IF /\ pred.result = "None"
               /\ pred.date <= day
               /\ score[1] # 0 /\ score[2] # 0
            THEN CompletePrediction(pred, score[1], score[2])
            ELSE pred ]

\* update_results: the loop over the pending predictions; a game dated d is
\* final on the scoreboard once d + lag < today
UpdatePending(preds, day, sc, lag) ==
    [ i \in 1..Len(preds) |->
        LET pred == preds[i]
            score == Cyc(sc, pred.game_id)
        IN  IF /\ pred.result = "None"
               /\ pred.date < day
               /\ pred.date + lag < day
               /\ score[1] # 0 /\ score[2] # 0
            THEN CompletePrediction(pred, score[1], score[2])
            ELSE pred ]

\* generate_report: the against-the-spread line (games counted, games correct)
ReportAts(preds) ==
    LET completed == { i \in 1..Len(preds) : preds[i].result = "complete" }
        with_spreads == { i \in completed : preds[i].has_real_spread }
        ats_games == { i \in with_spreads : preds[i].ats_correct # "None" }
    IN  [ games |-> Cardinality(ats_games),
          correct |-> Cardinality({ i \in ats_games : preds[i].ats_correct = "True" }) ]

InitTracker ==
    /\ driver = "T"
    /\ run_mode = "single"
    /\ fetched = << >>
    /\ games = << >>
    /\ sampled = {}
    /\ team_states = NoTeams
    /\ results = << >>
    /\ idx = 0
    /\ pc = "done"
    /\ fold_log = << >>
    /\ games2 = << >>
    /\ team_states2 = NoTeams
    /\ results2 = << >>
    /\ elo_call = << >>
    /\ odds_feed = "none"
    /\ historical_spreads = NoSpreads
    /\ spread_cache = NoSpreads
    /\ spread_cache2 = NoSpreads
    /\ tracker = << >>
    /\ today = 1
    /\ stat_call = << >>
    /\ outcome = "running"

\* everything but the tracker file and the calendar
notTracker ==
    << driver, run_mode, fetched, games, sampled, team_states, results, idx, pc,
       fold_log, games2, team_states2, results2, elo_call, odds_feed,
       historical_spreads, spread_cache, spread_cache2, stat_call, outcome >>

\* python track_predictions.py record
RecordPredictions ==
    /\ driver = "T"
    /\ \E team_stats \in TeamStatsSets, current_odds \in CurrentOddsSets :
         tracker' = RecordGames(tracker,
                                Scoreboard(today) \o Scoreboard(today + 1)
                                  \o Scoreboard(today + 2),
                                team_stats, current_odds)
    /\ UNCHANGED today
    /\ UNCHANGED notTracker

\* python track_predictions.py update
UpdateResults ==
    /\ driver = "T"
    /\ \E i \in 1..Len(tracker) : tracker[i].result = "None"
    /\ \E sc \in TrackerScoreCycles, lag \in { 0, 1 } :
         tracker' = UpdatePending(tracker, today, sc, lag)
    /\ UNCHANGED today
    /\ UNCHANGED notTracker

\* midnight
AdvanceDay ==
    /\ driver = "T"
    /\ today < MaxDay
    /\ today' = today + 1
    /\ UNCHANGED tracker
    /\ UNCHANGED notTracker

NextTracker == RecordPredictions \/ UpdateResults \/ AdvanceDay

SpecTracker == InitTracker /\ [][NextTracker]_vars

(***************************************************************************)
(* buzzing_rigorous.py: rates and probabilities in ten-thousandths, every   *)
(* operation rounded to the nearest unit                                    *)
(***************************************************************************)
\* a / b to the nearest integer, b > 0
DivR(a, b) == (2 * a + b) \div (2 * b)

RECURSIVE SqrtSearch(_, _, _)
SqrtSearch(x, lo, hi) ==
    IF lo >= hi THEN lo
    ELSE LET mid == (lo + hi + 1) \div 2
         IN  IF mid * mid <= x THEN SqrtSearch(x, mid, hi)
             ELSE SqrtSearch(x, lo, mid - 1)

\* math.sqrt, to the nearest integer
Sqrt(x) ==
    LET r == SqrtSearch(x, 0, 20000)
    IN  IF x - r * r > r THEN r + 1 ELSE r

\* z = 1.96
Z == 19600

\* the interval of the normal approximation, p +- z * sqrt(p (1 - p) / n)
wilson_confidence_interval_Normal(successes, trials) ==
    IF trials = 0 THEN << 0, 10000 >>
    ELSE LET p == DivR(successes * 10000, trials)
             margin == DivR(Z * Sqrt(DivR(p * (10000 - p), trials)), 10000)
         IN  << Max(0, p - margin), Min(10000, p + margin) >>

\* wilson_confidence_interval: (lower, upper)
wilson_confidence_interval(successes, trials) ==
    IF trials = 0 THEN << 0, 10000 >>
    ELSE LET p == DivR(successes * 10000, trials)
             z2 == (Z * Z) \div 10000
             denominator == 10000 + DivR(z2, trials)
             center == DivR((p + DivR(z2, 2 * trials)) * 10000, denominator)
             margin == DivR(DivR(Z * 10000, denominator)
                              * Sqrt(DivR(p * (10000 - p), trials)
                                     + DivR(z2 * 10000, 4 * trials * trials)),
                            10000)
         IN  << Max(0, center - margin), Min(10000, center + margin) >>

\* the full Kelly fraction (b p - q) / b, in millionths; odds in hundredths
FullKelly(win_prob, odds) ==
    LET b == odds - 100
        q == 10000 - win_prob
    IN  DivR((b * win_prob - q * 100) * 100, b)

\* a stake of the full Kelly fraction
kelly_criterion_Full(win_prob, odds) ==
    LET implied_prob == DivR(100000000, odds)
        edge == win_prob * 100 - implied_prob
    IN  IF edge <= 0 THEN 0 ELSE Max(0, FullKelly(win_prob, odds))

\* kelly_criterion, in millionths of the bankroll
kelly_criterion(win_prob, odds) ==
    LET implied_prob == DivR(100000000, odds)
        edge == win_prob * 100 - implied_prob
    IN  IF edge <= 0 THEN 0 ELSE Max(0, DivR(FullKelly(win_prob, odds), 2))

\* odds: float = 1.91
DEFAULT_ODDS == 191

Covers(gs) == Cardinality({ i \in 1..Len(gs) : gs[i].coveredSpread })

\* a segment trusted for its rate
analyze_segment_TrustsRate(name, gs, min_sample) ==
    LET total == Len(gs)
        wins == Covers(gs)
        ci == wilson_confidence_interval(wins, total)
    IN  [ name |-> name, wins |-> wins, total |-> total,
          ats_rate |-> IF total = 0 THEN 5000 ELSE DivR(wins * 10000, total),
          ci_lower |-> ci[1], ci_upper |-> ci[2],
          sample_sufficient |-> total >= min_sample \/ (total > 0 /\ wins = total),
          min_sample |-> min_sample ]

\* analyze_segment: the SegmentStats of a list of games
analyze_segment(name, gs, min_sample) ==
    LET total == Len(gs)
        wins == Covers(gs)
        ci == wilson_confidence_interval(wins, total)
    IN  IF total = 0
        THEN [ name |-> name, wins |-> 0, total |-> 0, ats_rate |-> 5000,
               ci_lower |-> 0, ci_upper |-> 10000,
               sample_sufficient |-> FALSE, min_sample |-> min_sample ]
        ELSE [ name |-> name, wins |-> wins, total |-> total,
               ats_rate |-> DivR(wins * 10000, total),
               ci_lower |-> ci[1], ci_upper |-> ci[2],
               sample_sufficient |-> total >= min_sample,
               min_sample |-> min_sample ]

\* n qualified games of one kind
GameBlock(is_home, opp_nr, is_b2b, covered, n) ==
    [ i \in 1..n |-> [ isHome |-> is_home, opponentNetRating |-> opp_nr,
                       isBackToBack |-> is_b2b, coveredSpread |-> covered ] ]

\* the min_sample values of the callers (build_segment_stats and the default)
MinSamples == { 8, 10, 12, 15, 20 }

WinProbs ==
    { 0, 2500, 3333, 3334, 4000, 5000, 5001, 5235, 5236, 5240, 5710, 6666, 6667,
      7500, 9000, 10000 }

OddsSet == { 150, DEFAULT_ODDS, 200, 300 }

InitRigor ==
    /\ driver = "R"
    /\ run_mode = "single"
    /\ fetched = << >>
    /\ games = << >>
    /\ sampled = {}
    /\ team_states = NoTeams
    /\ results = << >>
    /\ idx = 0
    /\ pc = "call"
    /\ fold_log = << >>
    /\ games2 = << >>
    /\ team_states2 = NoTeams
    /\ results2 = << >>
    /\ elo_call = << >>
    /\ odds_feed = "none"
    /\ historical_spreads = NoSpreads
    /\ spread_cache = NoSpreads
    /\ spread_cache2 = NoSpreads
    /\ tracker = << >>
    /\ today = 0
    /\ stat_call = << >>
    /\ outcome = "running"

\* everything but the call record and the position
notRigor ==
    << driver, run_mode, fetched, games, sampled, team_states, results, idx,
       fold_log, games2, team_states2, results2, elo_call, odds_feed,
       historical_spreads, spread_cache, spread_cache2, tracker, today, outcome >>

\* one call of wilson_confidence_interval
WilsonCall ==
    /\ driver = "R" /\ pc = "call"
    /\ \E trials \in 0..MaxTrials : \E successes \in 0..trials :
         stat_call' = [ fn |-> "wilson_confidence_interval",
                        successes |-> successes, trials |-> trials,
                        result |-> wilson_confidence_interval(successes, trials) ]
    /\ pc' = "done"
    /\ UNCHANGED notRigor

\* one call of kelly_criterion
KellyCall ==
    /\ driver = "R" /\ pc = "call"
    /\ \E win_prob \in WinProbs, odds \in OddsSet :
         stat_call' = [ fn |-> "kelly_criterion",
                        win_prob |-> win_prob, odds |-> odds,
                        result |-> kelly_criterion(win_prob, odds) ]
    /\ pc' = "done"
    /\ UNCHANGED notRigor

\* one call of analyze_segment
SegmentCall ==
    /\ driver = "R" /\ pc = "call"
    /\ \E total \in 0..MaxTrials, min_sample \in MinSamples :
         \E wins \in 0..total :
           LET gs == GameBlock(TRUE, 0, FALSE, TRUE, wins)
                       \o GameBlock(TRUE, 0, FALSE, FALSE, total - wins)
           IN  stat_call' = [ fn |-> "analyze_segment",
                              games |-> gs, min_sample |-> min_sample,
                              result |-> analyze_segment("x", gs, min_sample) ]
    /\ pc' = "done"
    /\ UNCHANGED notRigor

\* classify_opponent, on a net rating in whole points
classify_opponent(opp_net_rating) ==
    IF opp_net_rating >= 6 THEN "elite"
    ELSE IF opp_net_rating >= 3 THEN "strong"
    ELSE IF opp_net_rating >= -3 THEN "mid"
    ELSE "weak"

Tiers == << "elite", "strong", "mid", "weak" >>

TierKey(tier) ==
    CASE tier = "elite" -> "vs_elite"
      [] tier = "strong" -> "vs_strong"
      [] tier = "mid" -> "vs_mid"
      [] OTHER -> "vs_weak"

HomeGames(gs) == LET Keep(g) == g.isHome IN SelectSeq(gs, Keep)
AwayGames(gs) == LET Keep(g) == ~g.isHome IN SelectSeq(gs, Keep)
TierGames(gs, tier) ==
    LET Keep(g) == classify_opponent(g.opponentNetRating) = tier IN SelectSeq(gs, Keep)
B2BGames(gs) == LET Keep(g) == g.isBackToBack IN SelectSeq(gs, Keep)

\* the segments with a back-to-back minimum of 15 games
build_segment_stats_B2B15(qualified_games) ==
    ("overall" :> analyze_segment("Overall", qualified_games, 20))
    @@ ("home" :> analyze_segment("Home", HomeGames(qualified_games), 12))
    @@ ("road" :> analyze_segment("Road", AwayGames(qualified_games), 12))
    @@ [ k \in { TierKey(Tiers[i]) : i \in 1..Len(Tiers) } |->
           LET tier == CHOOSE t \in { Tiers[i] : i \in 1..Len(Tiers) } : TierKey(t) = k
           IN  analyze_segment(k, TierGames(qualified_games, tier), 8) ]
    @@ ("b2b" :> analyze_segment("Back-to-back", B2BGames(qualified_games), 15))

\* build_segment_stats: the SegmentStats of every segment
build_segment_stats(qualified_games) ==
    ("overall" :> analyze_segment("Overall", qualified_games, 20))
    @@ ("home" :> analyze_segment("Home", HomeGames(qualified_games), 12))
    @@ ("road" :> analyze_segment("Road", AwayGames(qualified_games), 12))
    @@ [ k \in { TierKey(Tiers[i]) : i \in 1..Len(Tiers) } |->
           LET tier == CHOOSE t \in { Tiers[i] : i \in 1..Len(Tiers) } : TierKey(t) = k
           IN  analyze_segment(k, TierGames(qualified_games, tier), 8) ]
    @@ ("b2b" :> analyze_segment("Back-to-back", B2BGames(qualified_games), 10))

\* BREAK_EVEN = 0.524
BREAK_EVEN == 5240

\* a factor of the analysis: the segment it comes from, the list it is
\* appended to, and whether its rate difference joins the adjustments
Factor(segment, kind, adjusts) ==
    [ segment |-> segment, kind |-> kind, adjusts |-> adjusts ]

\* the location factor (road or home)
LocationFactor(is_road, segment_stats) ==
    IF is_road
    THEN IF "road" \in DOMAIN segment_stats /\ segment_stats["road"].sample_sufficient
         THEN IF segment_stats["road"].ci_lower > 5240
              THEN Factor("road", "positive", TRUE)
              ELSE Factor("road", "uncertain", FALSE)
         ELSE Factor("road", "uncertain", FALSE)
    ELSE IF "home" \in DOMAIN segment_stats /\ segment_stats["home"].sample_sufficient
         THEN IF segment_stats["home"].ci_lower > 5240
              THEN Factor("home", "positive", TRUE)
              ELSE IF segment_stats["home"].ci_upper < 5240
                   THEN Factor("home", "negative", FALSE)
                   ELSE Factor("home", "uncertain", FALSE)
         ELSE Factor("home", "uncertain", FALSE)

\* the opponent tier factor
TierFactor(tier_key, segment_stats) ==
    IF tier_key \in DOMAIN segment_stats /\ segment_stats[tier_key].sample_sufficient
    THEN IF segment_stats[tier_key].ci_lower > 5240
         THEN Factor(tier_key, "positive", TRUE)
         ELSE IF segment_stats[tier_key].ci_upper < 5240
              THEN Factor(tier_key, "negative", TRUE)
              ELSE Factor(tier_key, "uncertain", FALSE)
    ELSE Factor(tier_key, "uncertain", FALSE)

\* the back-to-back factor
B2BFactor(segment_stats) ==
    IF "b2b" \in DOMAIN segment_stats /\ segment_stats["b2b"].total >= 10
    THEN IF segment_stats["b2b"].ci_lower > 5240
         THEN Factor("b2b", "positive", TRUE)
         ELSE Factor("b2b", "uncertain", FALSE)
    ELSE Factor("b2b", "uncertain", FALSE)

FactorsOfKind(factors, kind) ==
    LET Keep(f) == f.kind = kind
        kept == SelectSeq(factors, Keep)
    IN  [ i \in 1..Len(kept) |-> kept[i].segment ]

\* an edge whatever the interval
has_edge_Always(ci_lower) == TRUE

\* has_edge = ci_lower > BREAK_EVEN
has_edge(ci_lower) == ci_lower > BREAK_EVEN

\* analyze_game_rigorous: the RigorousPrediction of a game
analyze_game_rigorous(game, qualified_games, segment_stats) ==
    LET with_overall == "overall" \in DOMAIN segment_stats
        base_ats_rate == IF with_overall THEN segment_stats["overall"].ats_rate ELSE 5000
        base_ci_lower == IF with_overall THEN segment_stats["overall"].ci_lower ELSE 0
        base_ci_upper == IF with_overall THEN segment_stats["overall"].ci_upper ELSE 10000
        sample_size == IF with_overall THEN segment_stats["overall"].total ELSE 0
        is_road == ~game.isHome
        opp_tier == classify_opponent(game.opponentNetRating)
        factors == << LocationFactor(is_road, segment_stats),
                      TierFactor(TierKey(opp_tier), segment_stats) >>
                   \o (IF game.isBackToBack THEN << B2BFactor(segment_stats) >> ELSE << >>)
        positive_factors == FactorsOfKind(factors, "positive")
        negative_factors == FactorsOfKind(factors, "negative")
        uncertain_factors == FactorsOfKind(factors, "uncertain")
        adjusting == LET Keep(f) == f.adjusts IN SelectSeq(factors, Keep)
        adjustments ==
            [ i \in 1..Len(adjusting) |->
                [ segment |-> adjusting[i].segment,
                  value |-> segment_stats[adjusting[i].segment].ats_rate - base_ats_rate ] ]
        avg_adjustment ==
            DivR(SumSeq([ i \in 1..Len(adjustments) |-> adjustments[i].value ]),
                 Len(adjustments))
        raw_rate == IF Len(adjustments) > 0
                    THEN base_ats_rate + DivR(avg_adjustment, 2)
                    ELSE base_ats_rate
        adjusted_ats_rate == Max(4000, Min(9000, raw_rate))
        uncertainty_penalty == Len(uncertain_factors) * 300
        ci_lower == Max(0, base_ci_lower - uncertainty_penalty)
        ci_upper == Min(10000, base_ci_upper + uncertainty_penalty)
        edge == has_edge(ci_lower)
        kelly == IF edge THEN kelly_criterion(adjusted_ats_rate, DEFAULT_ODDS) ELSE 0
        sample_sufficient == sample_size >= 25
        confidence_level ==
            IF ~sample_sufficient THEN "insufficient"
            ELSE IF edge /\ Len(positive_factors) >= 2 /\ Len(negative_factors) = 0
                 THEN "high"
            ELSE IF edge /\ Len(positive_factors) >= 1 THEN "medium"
            ELSE IF adjusted_ats_rate > BREAK_EVEN THEN "low"
            ELSE "insufficient"
        recommended_bet ==
            IF confidence_level = "high" /\ kelly >= 50000 THEN "large"
            ELSE IF confidence_level = "medium" /\ kelly >= 30000 THEN "medium"
            ELSE IF confidence_level = "low" /\ kelly >= 20000 THEN "small"
            ELSE "pass"
    IN  [ base_ats_rate |-> base_ats_rate,
          adjusted_ats_rate |-> adjusted_ats_rate,
          ci_lower |-> ci_lower,
          ci_upper |-> ci_upper,
          sample_size |-> sample_size,
          sample_sufficient |-> sample_sufficient,
          confidence_level |-> confidence_level,
          has_edge |-> edge,
          edge_size |-> IF edge THEN ci_lower - BREAK_EVEN
                        ELSE adjusted_ats_rate - BREAK_EVEN,
          kelly_fraction |-> kelly,
          recommended_bet |-> recommended_bet,
          positive_factors |-> positive_factors,
          negative_factors |-> negative_factors,
          uncertain_factors |-> uncertain_factors,
          adjustments |-> adjustments ]

\* the kinds of qualified game: (isHome, opponentNetRating, isBackToBack)
GameKinds ==
    { << TRUE, 0, TRUE >>, << FALSE, 7, TRUE >>, << FALSE, -5, FALSE >>,
      << TRUE, 4, FALSE >> }

\* the kinds of the last block of a list
TailKinds == { << FALSE, -5, FALSE >>, << TRUE, 4, FALSE >> }

BlockCounts == { 0, 4, 8, 13, 22 }

KindBlock(kind, covered, n) == GameBlock(kind[1], kind[2], kind[3], covered, n)

\* the upcoming games
UpcomingGames ==
    [ isHome : BOOLEAN, opponentNetRating : { 7, 4, 0, -5 }, isBackToBack : BOOLEAN ]

\* analyze_game_rigorous on the segments build_segment_stats makes of the games
GameCall ==
    /\ driver = "R" /\ pc = "call"
    /\ \E a \in BlockCounts, b \in BlockCounts, c \in BlockCounts :
         /\ a + b + c <= MaxTrials
         /\ \E x \in GameKinds, y \in GameKinds, w \in TailKinds, game \in UpcomingGames :
              LET qualified_games == KindBlock(x, TRUE, a) \o KindBlock(y, FALSE, b)
                                       \o KindBlock(w, TRUE, c)
                  segment_stats == build_segment_stats(qualified_games)
              IN  stat_call' = [ fn |-> "analyze_game_rigorous",
                                 game |-> game,
                                 qualified_games |-> qualified_games,
                                 segment_stats |-> segment_stats,
                                 result |-> analyze_game_rigorous(game, qualified_games,
                                                                  segment_stats) ]
    /\ pc' = "done"
    /\ UNCHANGED notRigor

NextRigor == WilsonCall \/ KellyCall \/ SegmentCall \/ GameCall

SpecRigor == InitRigor /\ [][NextRigor]_vars

(***************************************************************************)
(* buzzing_analysis.py: the Buzzing prediction                             *)
(*                                                                         *)
(* Its arithmetic is Python float arithmetic on decimal inputs.  A float   *)
(* is kept as [d, e]: its value is d/20 + e * 2^-60 / 5, where d/20 is the *)
(* decimal value the arithmetic would give over the reals and e is the     *)
(* binary rounding error accumulated so far.  Every operation rounds to   *)
(* the 53-bit significand of an IEEE-754 double (nearest, ties to even).   *)
(***************************************************************************)

TwoTo(k) == << 1, 2, 4, 8, 16, 32, 64, 128, 256, 512, 1024, 2048, 4096,
               8192, 16384, 32768 >>[k + 1]

\* 2^n modulo 5
TwoToMod5(n) == << 1, 2, 4, 3 >>[(n % 4) + 1]

FSign(a) ==
    IF a.d > 0 THEN 1 ELSE IF a.d < 0 THEN -1
    ELSE IF a.e > 0 THEN 1 ELSE IF a.e < 0 THEN -1 ELSE 0

\* a >= the decimal d/20, which is a float
FGe(a, d) == a.d > d \/ (a.d = d /\ a.e >= 0)

\* the binary exponent of a nonzero float: the largest x with 2^x <= |a|
Exponent(a) ==
    LET D   == FSign(a) * a.d * 64
        eps == FSign(a) * a.e
        fits == { x \in -6..5 : \/ D > 20 * TwoTo(x + 6)
                                \/ D = 20 * TwoTo(x + 6) /\ eps >= 0 }
    IN  CHOOSE x \in fits : \A y \in fits : y <= x

\* a modulo 5 * 2^k units, the spacing of the floats at exponent k - 8
Residue(a, k) ==
    (TwoTo(k) * ((a.d * TwoToMod5(58 - k)) % 5) + a.e) % (5 * TwoTo(k))

\* the double nearest the exact value a
RoundToDouble(a) ==
    IF a.d = 0 THEN a
    ELSE LET k   == Exponent(a) + 8
             ulp == 5 * TwoTo(k)
             r   == Residue(a, k)
             down == [ d |-> a.d, e |-> a.e - r ]
             up   == [ d |-> a.d, e |-> a.e - r + ulp ]
         IN  IF 2 * r < ulp THEN down
             ELSE IF 2 * r > ulp THEN up
             ELSE IF Residue(a, k + 1) = r THEN down ELSE up

\* the float a decimal literal or a parsed decimal number is
Float(d) == RoundToDouble([ d |-> d, e |-> 0 ])

FAdd(a, b) == RoundToDouble([ d |-> a.d + b.d, e |-> a.e + b.e ])

\* an int times a float
FMulInt(n, a) == RoundToDouble([ d |-> n * a.d, e |-> n * a.e ])

\* -a * 0.5, exact in binary
FNegHalf(a) == [ d |-> (-a.d) \div 2, e |-> (-a.e) \div 2 ]

FMin(a, b) ==
    IF FSign([ d |-> a.d - b.d, e |-> a.e - b.e ]) <= 0 THEN a ELSE b

\* round(a, 1), in tenths: the nearest tenth, an exact tie going to the even one
Round1(a) ==
    IF a.d % 2 = 0 THEN a.d \div 2
    ELSE IF a.e > 0 THEN (a.d + 1) \div 2
    ELSE IF a.e < 0 THEN (a.d - 1) \div 2
    ELSE IF ((a.d - 1) \div 2) % 2 = 0 THEN (a.d - 1) \div 2 ELSE (a.d + 1) \div 2

\* the model constants, in twentieths of a point
CORE5_AVG_MARGIN == 178
ELITE_THRESHOLD == 120
STRONG_THRESHOLD == 60
WEAK_THRESHOLD == -60
HIGH_VALUE == 100
MEDIUM_VALUE == 60
LOW_VALUE == 20
HOME_BOOST == 0
ROAD_VALUE_BOOST == 40
B2B_BOOST == 20
REST_BOOST == 30
STREAK_BOOST == 6
ELITE_PENALTY == -60
ROAD_ELITE_PENALTY == -20

\* classify_opponent of buzzing_analysis.py, on a float
classify_opponent_analysis(opp_nr) ==
    IF FGe(opp_nr, ELITE_THRESHOLD) THEN "elite"
    ELSE IF FGe(opp_nr, STRONG_THRESHOLD) THEN "strong"
    ELSE IF FGe(opp_nr, WEAK_THRESHOLD) THEN "mid"
    ELSE "weak"

\* the current win streak: the wins before the first other result
RECURSIVE get_streak(_)
get_streak(gs) ==
    IF gs = << >> THEN 0
    ELSE IF Head(gs) = "W" THEN 1 + get_streak(Tail(gs))
    ELSE 0

confidence_score_of(value_score, opp_tier, is_home, streak, qualified) ==
    LET base  == 50 + Min(qualified, 20)
        value == IF FGe(value_score, HIGH_VALUE) THEN 20
                 ELSE IF FGe(value_score, MEDIUM_VALUE) THEN 10
                 ELSE IF FSign(value_score) < 0 THEN -20 ELSE 0
        tier  == IF opp_tier = "weak" THEN 10
                 ELSE IF opp_tier = "elite" THEN -15 ELSE 0
        home  == IF is_home THEN 5 ELSE 0
        hot   == IF streak >= 5 THEN 10 ELSE IF streak >= 3 THEN 5 ELSE 0
    IN  Max(0, Min(100, base + value + tier + home + hot))

\* the bet sizing ladder of buzzing_predict
bet_size_of(no_spread, opp_tier, is_home, value_score, confidence_score) ==
    IF no_spread
    THEN IF opp_tier = "elite" /\ ~is_home THEN "WAIT (road elite)"
         ELSE IF opp_tier = "elite" /\ is_home THEN "WAIT (home elite)"
         ELSE IF opp_tier = "weak" THEN "WAIT (weak opp)"
         ELSE IF opp_tier = "mid" THEN "WAIT (mid opp)"
         ELSE "WAIT"
    ELSE IF opp_tier = "elite" /\ ~is_home THEN "PASS"
    ELSE IF opp_tier = "elite" /\ is_home /\ FGe(value_score, MEDIUM_VALUE) THEN "MEDIUM"
    ELSE IF FGe(value_score, HIGH_VALUE) /\ confidence_score >= 70 THEN "MAX BET"
    ELSE IF FGe(value_score, MEDIUM_VALUE) /\ confidence_score >= 60 THEN "LARGE"
    ELSE IF FGe(value_score, LOW_VALUE) /\ confidence_score >= 50 THEN "MEDIUM"
    ELSE IF FSign(value_score) > 0 THEN "SMALL"
    ELSE "PASS"

\* buzzing_predict; game.opponentNetRating is in tenths, game.spread is
\* << >> or << half-points >>
buzzing_predict(game, qualified_games) ==
    LET opp_nr   == Float(2 * game.opponentNetRating)
        opp_tier == classify_opponent_analysis(opp_nr)
        half     == FNegHalf(opp_nr)
        opp_adjustment ==
            IF opp_tier = "elite" THEN FAdd(half, Float(ELITE_PENALTY))
            ELSE IF opp_tier = "weak" THEN FAdd(half, Float(40))
            ELSE half
        is_home  == game.isHome
        location_adj ==
            IF is_home THEN Float(HOME_BOOST)
            ELSE IF opp_tier = "elite"
                 THEN FAdd(Float(ROAD_VALUE_BOOST), Float(ROAD_ELITE_PENALTY))
                 ELSE Float(ROAD_VALUE_BOOST)
        rest_adj ==
            IF game.isBackToBack THEN Float(B2B_BOOST)
            ELSE IF game.restDays >= 2 THEN Float(REST_BOOST)
            ELSE Float(0)
        streak == get_streak(qualified_games)
        streak_adj ==
            IF streak >= 3 THEN FMin(FMulInt(streak, Float(STREAK_BOOST)), Float(60))
            ELSE Float(0)
        predicted_margin ==
            FAdd(FAdd(FAdd(FAdd(Float(CORE5_AVG_MARGIN), opp_adjustment),
                           location_adj), rest_adj), streak_adj)
        no_spread == game.spread = << >>
        value_score ==
            IF no_spread THEN Float(0)
            ELSE FAdd(predicted_margin, Float(10 * game.spread[1]))
        confidence_score ==
            confidence_score_of(value_score, opp_tier, is_home, streak,
                                Len(qualified_games))
    IN  [ predicted_margin |-> Round1(predicted_margin),
          value_score |-> Round1(value_score),
          confidence_score |-> confidence_score,
          bet_size |-> bet_size_of(no_spread, opp_tier, is_home, value_score,
                                   confidence_score),
          opp_tier |-> opp_tier,
          margin_float |-> predicted_margin,
          value_float |-> value_score ]

\* opponent net ratings, in tenths of a point
NetRatings == { -44, -30, 1, 36, 56, 60, 75 }

\* losses listed after the streak
Extras == { 0, 9 }

SpreadsOffered == { << >> } \cup { << s >> : s \in -MaxSpread2..MaxSpread2 }

UpcomingBuzz ==
    [ opponentNetRating : NetRatings, isHome : BOOLEAN, isBackToBack : BOOLEAN,
      restDays : { 1, 2 }, spread : SpreadsOffered ]

QualifiedResults(streak, extra) ==
    [ i \in 1..(streak + extra) |-> IF i <= streak THEN "W" ELSE "L" ]

InitBuzz ==
    /\ driver = "A"
    /\ run_mode = "single"
    /\ fetched = << >>
    /\ games = << >>
    /\ sampled = {}
    /\ team_states = NoTeams
    /\ results = << >>
    /\ idx = 0
    /\ pc = "call"
    /\ fold_log = << >>
    /\ games2 = << >>
    /\ team_states2 = NoTeams
    /\ results2 = << >>
    /\ elo_call = << >>
    /\ odds_feed = "none"
    /\ historical_spreads = NoSpreads
    /\ spread_cache = NoSpreads
    /\ spread_cache2 = NoSpreads
    /\ tracker = << >>
    /\ today = 0
    /\ stat_call = << >>
    /\ outcome = "running"

\* one call of buzzing_predict
BuzzCall ==
    /\ driver = "A" /\ pc = "call"
    /\ \E game \in UpcomingBuzz, streak \in 0..MaxStreak, extra \in Extras :
         \E qualified_games \in { QualifiedResults(streak, extra) } :
           \E r \in { buzzing_predict(game, qualified_games) } :
             stat_call' = [ fn |-> "buzzing_predict", game |-> game,
                            qualified_games |-> qualified_games, result |-> r ]
    /\ pc' = "done"
    /\ UNCHANGED notRigor

NextBuzz == BuzzCall

SpecBuzz == InitBuzz /\ [][NextBuzz]_vars

(***************************************************************************)
(* backtest_league.py: the league-wide backtest                            *)
(*                                                                         *)
(* Net ratings are in tenths of a point, paces in tenths of a possession,  *)
(* predicted margins in ten-thousandths of a point (a margin in tenths     *)
(* times a multiplier in thousandths, exactly).                            *)
(***************************************************************************)

LeagueTeams == { "BOS", "CHA", "NYK" }

LeagueGame(k, mc, sc) ==
    [ game_id |-> k,
      date |-> k,
      home_team_id |-> Cyc(mc, k).home,
      away_team_id |-> Cyc(mc, k).away,
      home_score |-> Cyc(sc, k)[1],
      away_score |-> Cyc(sc, k)[2] ]

\* what get_league_games returns: the season's games so far
LeagueSeasons ==
    { [ k \in 1..n |-> LeagueGame(k, mc, sc) ] :
        n \in 0..MaxLeagueGames, mc \in MatchupCycles, sc \in ScoreCycles }

\* the same games with other scores from game k on
VaryScores(gs, k, sc2) ==
    [ j \in 1..Len(gs) |->
        IF j < k THEN gs[j]
        ELSE [ gs[j] EXCEPT !.home_score = Cyc(sc2, j)[1],
                            !.away_score = Cyc(sc2, j)[2] ] ]

\* PACE of the three teams, as the stats endpoint reports it
PaceTables ==
    { [ t \in LeagueTeams |-> 1000 ],
      [ t \in LeagueTeams |-> IF t = "CHA" THEN 1035 ELSE 990 ] }

\* the teams the stats endpoint has a row with GP > 0 for
ListedTeams == { LeagueTeams, LeagueTeams \ { "NYK" } }

RECURSIVE TeamLine(_, _, _)
\* GP, W, L and the point difference of a team over the games of the season
TeamLine(gs, i, t) ==
    IF i > Len(gs) THEN [ gp |-> 0, w |-> 0, l |-> 0, diff |-> 0 ]
    ELSE LET rest == TeamLine(gs, i + 1, t)
             g    == gs[i]
             mine == IF g.home_team_id = t THEN g.home_score - g.away_score
                     ELSE g.away_score - g.home_score
         IN  IF t \notin { g.home_team_id, g.away_team_id } THEN rest
             ELSE [ gp |-> rest.gp + 1,
                    w |-> rest.w + (IF mine > 0 THEN 1 ELSE 0),
                    l |-> rest.l + (IF mine < 0 THEN 1 ELSE 0),
                    diff |-> rest.diff + mine ]

\* get_all_team_stats: the season-to-date row of every listed team that has
\* played; NET_RATING is the point difference per 100 possessions
get_all_team_stats(season, pace, listed) ==
    LET played == { t \in listed : TeamLine(season, 1, t).gp > 0 }
    IN  [ t \in played |->
            LET line == TeamLine(season, 1, t)
            IN  [ wins |-> line.w,
                  losses |-> line.l,
                  net_rating |-> DivR(10000 * line.diff, line.gp * pace[t]),
                  pace |-> pace[t] ] ]

\* predict_margin before the pace adjustment, in tenths
BaseMargin(home_team_stats, away_team_stats) ==
    LET home_nr == home_team_stats.net_rating
        away_nr == away_team_stats.net_rating
        nr_diff == home_nr - away_nr
        home_advantage == 25
        elite_penalty == IF away_nr >= 60 THEN -20 ELSE 0
    IN  nr_diff + home_advantage + elite_penalty

\* pace_multiplier, in thousandths
pace_multiplier(home_pace, away_pace) ==
    LET combined_pace == home_pace + away_pace
        pace_deviation == combined_pace - 2000
    IN  1000 - Max(0, pace_deviation * 2)

LeagueCap == 150000

predict_margin(home_team_stats, away_team_stats) ==
    LET predicted_margin ==
            BaseMargin(home_team_stats, away_team_stats)
              * pace_multiplier(home_team_stats.pace, away_team_stats.pace)
    IN  Max(-LeagueCap, Min(LeagueCap, predicted_margin))

\* one iteration of the loop of run_league_backtest; the record keeps the
\* prediction and the error as computed, the report rounds them
LeagueIteration(res, game, team_stats) ==
    IF \/ game.home_team_id \notin DOMAIN team_stats
       \/ game.away_team_id \notin DOMAIN team_stats
    THEN res
    ELSE LET home_stats == team_stats[game.home_team_id]
             away_stats == team_stats[game.away_team_id]
             predicted_margin == predict_margin(home_stats, away_stats)
             actual_margin == game.home_score - game.away_score
         IN  Append(res,
               [ game_id |-> game.game_id,
                 date |-> game.date,
                 home_nr |-> home_stats.net_rating,
                 away_nr |-> away_stats.net_rating,
                 home_pace |-> home_stats.pace,
                 away_pace |-> away_stats.pace,
                 predicted_margin |-> predicted_margin,
                 actual_margin |-> actual_margin,
                 error |-> Abs(predicted_margin - 10000 * actual_margin),
                 predicted_correct |-> (predicted_margin > 0) = (actual_margin > 0) ])

\* main after run_league_backtest: the summary is {} when nothing was predicted
MainOutcomeL(res) == IF res = << >> THEN "KeyError" ELSE "printed"

\* team statistics handed to predict_margin directly
MarginStats ==
    [ net_rating : { -80, -20, 0, 50, 60 }, pace : { 950, 1000, 1040, 1250, 1300, 1600 } ]

InitLeague ==
    /\ driver = "L"
    /\ run_mode = "pair"
    /\ fetched = << >>
    /\ games = << >>
    /\ sampled = {}
    /\ team_states = NoTeams
    /\ results = << >>
    /\ idx = 0
    /\ pc = "start"
    /\ fold_log = << >>
    /\ games2 = << >>
    /\ team_states2 = NoTeams
    /\ results2 = << >>
    /\ elo_call = << >>
    /\ odds_feed = "none"
    /\ historical_spreads = NoSpreads
    /\ spread_cache = NoSpreads
    /\ spread_cache2 = NoSpreads
    /\ tracker = << >>
    /\ today = 0
    /\ stat_call = << >>
    /\ outcome = "running"

notLeague ==
    << driver, run_mode, fetched, sampled, fold_log, elo_call, odds_feed,
       historical_spreads, spread_cache, spread_cache2, tracker, today >>

\* one call of predict_margin
MarginCall ==
    /\ driver = "L" /\ pc = "start"
    /\ \E home_team_stats \in MarginStats, away_team_stats \in MarginStats :
         stat_call' =
           [ fn |-> "predict_margin",
             home_team_stats |-> home_team_stats,
             away_team_stats |-> away_team_stats,
             before |-> 1000 * BaseMargin(home_team_stats, away_team_stats),
             after |-> BaseMargin(home_team_stats, away_team_stats)
                         * pace_multiplier(home_team_stats.pace, away_team_stats.pace),
             result |-> predict_margin(home_team_stats, away_team_stats) ]
    /\ pc' = "done"
    /\ UNCHANGED << games, games2, team_states, team_states2, results, results2,
                    idx, outcome >>
    /\ UNCHANGED notLeague

\* main fetches the team statistics and the games, on two seasons that are
\* the same up to some game
LeagueFetch ==
    /\ driver = "L" /\ pc = "start"
    /\ \E season \in LeagueSeasons, sc2 \in ScoreCycles, k \in 1..MaxLeagueGames,
          pace \in PaceTables, listed \in ListedTeams :
         /\ games' = season
         /\ games2' = VaryScores(season, k, sc2)
         /\ team_states' = get_all_team_stats(season, pace, listed)
         /\ team_states2' = get_all_team_stats(VaryScores(season, k, sc2), pace, listed)
    /\ results' = << >>
    /\ results2' = << >>
    /\ idx' = 1
    /\ pc' = "predict"
    /\ UNCHANGED << stat_call, outcome >>
    /\ UNCHANGED notLeague

\* both runs take the iteration for their game at position idx
LeagueStep ==
    /\ driver = "L" /\ pc = "predict" /\ idx <= Len(games)
    /\ results' = LeagueIteration(results, games[idx], team_states)
    /\ results2' = LeagueIteration(results2, games2[idx], team_states2)
    /\ idx' = idx + 1
    /\ UNCHANGED << games, games2, team_states, team_states2, pc, stat_call, outcome >>
    /\ UNCHANGED notLeague

\* the summary and its printing
LeagueFinish ==
    /\ driver = "L" /\ pc = "predict" /\ idx > Len(games)
    /\ outcome' = MainOutcomeL(results)
    /\ pc' = "done"
    /\ UNCHANGED << games, games2, team_states, team_states2, results, results2,
                    idx, stat_call >>
    /\ UNCHANGED notLeague

NextLeague == MarginCall \/ LeagueFetch \/ LeagueStep \/ LeagueFinish

SpecLeague == InitLeague /\ [][NextLeague]_vars

(***************************************************************************)
(* Properties                                                              *)
(***************************************************************************)
Range(s) == { s[i] : i \in 1..Len(s) }

Last(s) == s[Len(s)]

\* the position in gs of the game with this id
PosOf(gs, id) == CHOOSE i \in 1..Len(gs) : gs[i].game_id = id

\* the ids of the games folded so far
FoldedIds == { fold_log[i].game_id : i \in 1..Len(fold_log) }

Plays(t, g) == t = g.home_team_id \/ t = g.away_team_id

\* the loop iterations that have run to their end
Finished ==
    IF pc = "done" THEN Len(games) ELSE IF pc = "prepare" THEN 0 ELSE idx - 1

\* backtest_model.py folds a game only if it holds a state for both teams;
\* backtest.py creates the states it lacks
Foldable(g) ==
    driver = "B" \/ (g.home_team_id \in KnownTeams /\ g.away_team_id \in KnownTeams)

\* the prediction for games[idx] as computed from the states as they are now
PredictionNow ==
    LET g == games[idx]
    IN  IF driver = "B"
        THEN ResultFromB(team_states[g.home_team_id], team_states[g.away_team_id], g,
                         ClosingSpread(historical_spreads, spread_cache,
                                       team_states[g.home_team_id],
                                       team_states[g.away_team_id], g))
        ELSE PredictionFromM(team_states[g.home_team_id],
                             team_states[g.away_team_id], g)

\* whether the loop body predicts games[idx]; read at "fold", before the fold
PredictionDue ==
    IF driver = "B" THEN games[idx].game_id \in sampled
    ELSE ~ShortHistoryM(team_states, games[idx])

(* C1: in both run_backtest loops the prediction of a game reads the two    *)
(* team states before that game is folded into them.  When the loop is      *)
(* about to predict game i, game i is neither predicted nor folded; when it *)
(* is about to fold game i, game i is not folded yet, its prediction (if    *)
(* one is due) is the last one recorded and is the prediction computed from *)
(* the states as they still are; and every game before a predicted game has *)
(* been folded by the time that prediction is on record.                    *)
C1_PredictBeforeFold ==
    (run_mode = "single" /\ driver \in { "B", "M" }) =>
      /\ pc = "predict" =>
           /\ games[idx].game_id \notin FoldedIds
           /\ \A k \in 1..Len(results) : results[k].game_id # games[idx].game_id
      /\ pc = "fold" =>
           /\ games[idx].game_id \notin FoldedIds
           /\ IF PredictionDue
              THEN /\ results # << >>
                   /\ Last(results) = PredictionNow
              ELSE \A k \in 1..Len(results) : results[k].game_id # games[idx].game_id
      /\ results # << >> =>
           LET p == PosOf(games, Last(results).game_id)
           IN  /\ p <= idx
               /\ \A j \in 1..(p - 1) :
                    Foldable(games[j]) => games[j].game_id \in FoldedIds
      /\ fold_log # << >> => PosOf(games, Last(fold_log).game_id) <= Finished

C1_Witness ==
    /\ run_mode = "single"
    /\ pc = "fold"
    /\ results # << >>
    /\ Last(results).game_id = games[idx].game_id
    /\ Len(fold_log) >= SKIP_GAMES

(* C3: games are folded in non-decreasing date order, whatever the order in *)
(* which they were fetched.                                                 *)
C3_FoldsInDateOrder ==
    \A i \in 1..(Len(fold_log) - 1) :
        fold_log[i].date <= fold_log[i + 1].date

C3_Witness ==
    /\ pc = "done"
    /\ Len(fold_log) >= 2
    /\ \E i, j \in 1..Len(fetched) : i < j /\ fetched[i].date > fetched[j].date

\* the number of folded games that team t played in
FoldedCount(t) == Cardinality({ i \in 1..Len(fold_log) : Plays(t, fold_log[i]) })

\* of the games folded so far, those that come before position p of the list
FoldedBefore(p) ==
    LET earlier == { games[j].game_id : j \in 1..(p - 1) }
    IN  SelectSeq(fold_log, LAMBDA g : g.game_id \in earlier)

HistoryBefore(t, p) ==
    LET log == FoldedBefore(p)
    IN  Cardinality({ i \in 1..Len(log) : Plays(t, log[i]) })

ResultsFor(id) == { k \in 1..Len(results) : results[k].game_id = id }

(* C5: backtest_model.run_backtest emits a Prediction for a game if and only *)
(* if it holds a state for both teams and each of them has at least 4 games *)
(* folded when the game is reached; it emits exactly one for such a game    *)
(* and none for any other.                                                  *)
C5_PredictionIffHistory ==
    (run_mode = "single" /\ driver = "M") =>
      /\ pc = "fold" =>
           LET g == games[idx]
           IN  (ResultsFor(g.game_id) # {})
               <=> ( FoldedCount(g.home_team_id) >= MIN_HISTORY
                     /\ FoldedCount(g.away_team_id) >= MIN_HISTORY )
      /\ pc = "predict" => ResultsFor(games[idx].game_id) = {}
      /\ \A k \in 1..Len(results) :
           /\ Cardinality(ResultsFor(results[k].game_id)) = 1
           /\ \/ results[k].game_id \in FoldedIds
              \/ pc = "fold" /\ results[k].game_id = games[idx].game_id
      /\ pc = "done" =>
           \A p \in 1..Len(games) :
             LET g == games[p]
                 due == /\ g.home_team_id \in KnownTeams
                        /\ g.away_team_id \in KnownTeams
                        /\ HistoryBefore(g.home_team_id, p) >= MIN_HISTORY
                        /\ HistoryBefore(g.away_team_id, p) >= MIN_HISTORY
             IN  Cardinality(ResultsFor(g.game_id)) = IF due THEN 1 ELSE 0

C5_Witness ==
    /\ run_mode = "single" /\ driver = "M" /\ pc = "done"
    /\ results # << >>
    /\ Len(results) + MIN_HISTORY < Len(fold_log)
    /\ Len(fold_log) < Len(games)

\* the window entry that a fold of g appends for team t
EntryOf(t, g) ==
    IF t = g.home_team_id
    THEN [ pts_for |-> g.home_pts, pts_against |-> g.away_pts,
           net_rating |-> (g.home_pts - g.away_pts) * 1000 ]
    ELSE [ pts_for |-> g.away_pts, pts_against |-> g.home_pts,
           net_rating |-> (g.away_pts - g.home_pts) * 1000 ]

\* the entries of all the folded games of team t, in fold order
TeamHistory(t) ==
    LET mine == SelectSeq(fold_log, LAMBDA g : Plays(t, g))
    IN  [ i \in 1..Len(mine) |-> EntryOf(t, mine[i]) ]

(* C7: in backtest.py every team's window holds at most 15 entries, and they *)
(* are the team's most recent min(n, 15) folded games in fold order.        *)
C7_WindowIsLast15 ==
    (run_mode = "single" /\ driver = "B") =>
      \A t \in DOMAIN team_states :
        LET h == TeamHistory(t)
        IN  /\ Len(team_states[t].games) <= 15
            /\ Len(team_states[t].games) = Min(Len(h), 15)
            /\ team_states[t].games = LastN(h, 15)

C7_Witness ==
    /\ run_mode = "single" /\ driver = "B"
    /\ \E t \in DOMAIN team_states :
         /\ Len(TeamHistory(t)) > 15
         /\ Len(team_states[t].games) = 15
         /\ team_states[t].games[1] # TeamHistory(t)[1]

C8_RecordCountsFolds ==
    (run_mode = "single" /\ driver = "B") =>
      \A t \in DOMAIN team_states :
        team_states[t].wins + team_states[t].losses = FoldedCount(t)

C8_FoldStep ==
    (run_mode = "single" /\ driver = "B" /\ fold_log' # fold_log) =>
      LET g == games[idx]
          h == g.home_team_id
          a == g.away_team_id
          d == << team_states'[h].wins - team_states[h].wins,
                  team_states'[h].losses - team_states[h].losses,
                  team_states'[a].wins - team_states[a].wins,
                  team_states'[a].losses - team_states[a].losses >>
      IN  /\ d \in { << 1, 0, 0, 1 >>, << 0, 1, 1, 0 >> }
          /\ \A t \in DOMAIN team_states \ { h, a } :
               team_states'[t] = team_states[t]

(* C8: in backtest.py, for every team wins + losses equals the number of    *)
(* games folded into its state, and each fold adds exactly one win to one   *)
(* participant and exactly one loss to the other.                           *)
C8_WinsPlusLosses == []C8_RecordCountsFolds /\ [][C8_FoldStep]_vars

C8_Witness ==
    /\ run_mode = "single" /\ driver = "B" /\ pc = "done"
    /\ \E i \in 1..Len(fold_log) : fold_log[i].home_pts = fold_log[i].away_pts
    /\ \E i \in 1..Len(fold_log) : fold_log[i].home_pts > fold_log[i].away_pts

\* the games of the list that team t played among the finished iterations
PlayedSoFar(t) == { j \in 1..Finished : Plays(t, games[j]) }

\* the number of games a team's state says were folded into it
GamesInState(t) ==
    IF driver = "B" THEN team_states[t].wins + team_states[t].losses
    ELSE Len(team_states[t].games)

(* C4: every game of the list is folded into the state of both of its teams *)
(* exactly once, predicted or not: once the loop has processed k games that *)
(* involve a team, that team's state reflects exactly those k games.        *)
C4_EveryGameFoldedOnce ==
    (run_mode = "single" /\ driver \in { "B", "M" } /\ pc # "prepare") =>
      /\ \A j \in 1..Finished :
           Cardinality({ i \in 1..Len(fold_log) :
                           fold_log[i].game_id = games[j].game_id }) = 1
      /\ \A t \in DOMAIN team_states :
           GamesInState(t) = Cardinality(PlayedSoFar(t))

(* C6: every game for which backtest.py emits a BacktestResult had, when it *)
(* was predicted, at least one earlier game folded into the state of each   *)
(* of its two teams.                                                        *)
C6_SampledGamesHaveHistory ==
    (run_mode = "single" /\ driver = "B") =>
      \A k \in 1..Len(results) :
        LET p == PosOf(games, results[k].game_id)
        IN  /\ HistoryBefore(games[p].home_team_id, p) >= 1
            /\ HistoryBefore(games[p].away_team_id, p) >= 1

C10_TieStep ==
    ( /\ run_mode = "single" /\ driver \in { "B", "M" }
      /\ fold_log' # fold_log
      /\ games[idx].home_pts = games[idx].away_pts ) =>
      \A t \in DOMAIN team_states :
        IF driver = "B"
        THEN /\ team_states'[t].wins = team_states[t].wins
             /\ team_states'[t].losses = team_states[t].losses
        ELSE team_states'[t].elo = team_states[t].elo

(* C10: a game whose final scores are equal never reaches the winner/loser  *)
(* update: folding it credits no team with a win or a loss and changes no   *)
(* team's Elo rating.                                                       *)
C10_TieCreditsNobody == [][C10_TieStep]_vars

\* the first position at which the two game lists of a pair differ
FirstDiff ==
    CHOOSE j \in 1..Len(games) :
        /\ games[j] # games2[j]
        /\ \A i \in 1..(j - 1) : games[i] = games2[i]

\* the predicted margin of a record and its Elo and net-rating components
PredictedPart(r) ==
    IF driver = "B"
    THEN << r.predicted_margin, r.elo_component, r.nr_component >>
    ELSE << r.hybrid_pred_spread, r.elo_pred_spread, r.nr_pred_spread >>

SameFixture(g1, g2) ==
    /\ g1.game_id = g2.game_id
    /\ g1.date = g2.date
    /\ g1.home_team_id = g2.home_team_id
    /\ g1.away_team_id = g2.away_team_id

(* C2: no look-ahead, as a property of two runs.  If the game lists of two   *)
(* runs are identical before game i and agree on the teams and date of game *)
(* i, then the predicted margin and its Elo and net-rating components that  *)
(* the two runs record for game i, and for every earlier game, are the      *)
(* same, whatever the scores of game i and whatever the later games.        *)
C2_NoLookAhead ==
    run_mode = "pair" =>
      \A k \in 1..Len(results), k2 \in 1..Len(results2) :
        ( /\ results[k].game_id = results2[k2].game_id
          /\ PosOf(games, results[k].game_id) <= FirstDiff
          /\ SameFixture(games[FirstDiff], games2[FirstDiff]) )
        => PredictedPart(results[k]) = PredictedPart(results2[k2])

C2_Witness ==
    /\ run_mode = "pair" /\ pc = "done"
    /\ SameFixture(games[FirstDiff], games2[FirstDiff])
    /\ \E k \in 1..Len(results), k2 \in 1..Len(results2) :
         /\ results[k].game_id = games[FirstDiff].game_id
         /\ results2[k2].game_id = games[FirstDiff].game_id
         /\ results[k].actual_margin # results2[k2].actual_margin
         /\ Len(results) > k

SumElo(ts) == SumSeq([ i \in 1..2 |-> IF i = 1 THEN ts["CHA"].elo ELSE ts["BOS"].elo ])

C9_CallInv ==
    (driver = "elo" /\ elo_call # << >>) =>
      LET c == elo_call
          s == c.result[1] - c.winner_elo
          d == adjusted_elo_diff(c.winner_elo, c.loser_elo, c.winner_home)
      IN  /\ s >= 0
          /\ (c.winner_elo <= 2000000 /\ c.loser_elo >= 1000000) => s > 0
          /\ c.result[2] = c.loser_elo - s
          /\ s <= ELO_K_FACTOR * mov_mult(c.margin, d)
          /\ c.result[1] + c.result[2] = c.winner_elo + c.loser_elo

C9_SumStep == driver = "elo" => SumElo(team_states') = SumElo(team_states)

StoredPrediction(r) ==
    IF driver = "B" THEN r.predicted_margin ELSE r.hybrid_pred_spread

StoredError(r) ==
    IF driver = "B" THEN r.margin_error ELSE r.hybrid_error

(* C11: in every prediction record of a backtest run the stored error is the *)
(* absolute difference between the stored predicted margin and the stored    *)
(* actual margin of that record.                                             *)
C11_ErrorMatchesRecord ==
    (run_mode = "single" /\ driver \in { "B", "M" }) =>
      \A k \in 1..Len(results) :
        StoredError(results[k])
          = Abs(StoredPrediction(results[k]) - results[k].actual_margin * 1000)

\* the cap the margin predictors are to keep, thousandths of a point
MarginCap == 15000

(* C12: the final predicted margin of every record lies in [-15, +15].       *)
C12_MarginWithinCap ==
    (run_mode = "single" /\ driver \in { "B", "M" }) =>
      \A k \in 1..Len(results) :
        /\ StoredPrediction(results[k]) <= MarginCap
        /\ StoredPrediction(results[k]) >= -MarginCap

(* C13: a record of backtest.py's run_backtest carries a boolean ats_correct *)
(* only if the game has a real market spread; without one the field is not  *)
(* computed from a substitute value.                                         *)
C13_AtsOnlyWithMarketSpread ==
    (run_mode = "single" /\ driver = "B") =>
      \A k \in 1..Len(results) :
        results[k].ats_correct \in BOOLEAN
          => MatchupKey(results[k].away_team, results[k].home_team)
               \in DOMAIN historical_spreads

\* a push: the actual margin lands within half a point of the spread
IsPush(actual_margin, spread) == Abs(actual_margin * 1000 + spread) < 500

(* C14: a push is never counted as an incorrect against-the-spread pick:     *)
(* no record of run_backtest and no completed prediction of the tracker with *)
(* |actual_margin + spread| < 0.5 is marked ATS-incorrect.                   *)
C14_PushNeverIncorrect ==
    /\ (run_mode = "single" /\ driver = "B") =>
         \A k \in 1..Len(results) :
           IsPush(results[k].actual_margin, results[k].closing_spread)
             => results[k].ats_correct
    /\ \A i \in 1..Len(tracker) :
         ( /\ tracker[i].result = "complete"
           /\ tracker[i].actual_spread # None
           /\ IsPush(tracker[i].actual_margin[1], tracker[i].actual_spread[1]) )
         => tracker[i].ats_correct # "False"

\* a finished call of fn in buzzing_rigorous.py
Called(fn) == driver = "R" /\ pc = "done" /\ stat_call.fn = fn

RangeOf(seq) == { seq[i] : i \in 1..Len(seq) }

\* C15: every SegmentStats of analyze_segment has
\* 0 <= ci_lower <= ats_rate <= ci_upper <= 1, the empty list included, and
\* wilson_confidence_interval(0, 0) is exactly (0.0, 1.0)
C15_IntervalBracketsRate ==
    /\ Called("analyze_segment") =>
         LET r == stat_call.result
         IN  /\ 0 <= r.ci_lower
             /\ r.ci_lower <= r.ats_rate
             /\ r.ats_rate <= r.ci_upper
             /\ r.ci_upper <= 10000
    /\ (Called("wilson_confidence_interval") /\ stat_call.trials = 0) =>
         stat_call.result = << 0, 10000 >>

\* the part of C15 that does hold: the bounds are ordered and within [0, 1],
\* and the empty segment gets (0.0, 1.0)
C15_BoundsWithinUnit ==
    /\ Called("analyze_segment") =>
         LET r == stat_call.result
         IN  0 <= r.ci_lower /\ r.ci_lower <= r.ci_upper /\ r.ci_upper <= 10000
    /\ (Called("analyze_segment") /\ Len(stat_call.games) = 0) =>
         LET r == stat_call.result
         IN  r.ci_lower = 0 /\ r.ats_rate = 5000 /\ r.ci_upper = 10000

\* C16 as stated: with successes = trials > 0 the upper bound of
\* wilson_confidence_interval is strictly below 1.0 for every trials
C16_UpperBelowOne ==
    (Called("wilson_confidence_interval") /\ stat_call.trials > 0
       /\ stat_call.successes = stat_call.trials) =>
        stat_call.result[2] < 10000

\* C16, amended: with successes = trials > 0 the upper bound is at most 1.0 and
\* is exactly 1.0 for a single trial; it is the lower bound that is strictly
\* below 1.0 for every trials and grows with trials
C16_LowerBelowOne ==
    (Called("wilson_confidence_interval") /\ stat_call.trials > 0
       /\ stat_call.successes = stat_call.trials) =>
        LET n == stat_call.trials
        IN  /\ stat_call.result[2] <= 10000
            /\ n = 1 => stat_call.result[2] = 10000
            /\ stat_call.result[1] < 10000
            /\ n > 1 => stat_call.result[1] >= wilson_confidence_interval(n - 1, n - 1)[1]

C16_Witness ==
    /\ Called("wilson_confidence_interval")
    /\ stat_call.trials > 1
    /\ stat_call.successes = stat_call.trials
    /\ stat_call.result[2] = 10000

C18_SufficientIffCount ==
    Called("analyze_segment") =>
        (stat_call.result.sample_sufficient
           <=> Len(stat_call.games) >= stat_call.min_sample)

C18_Witness ==
    /\ Called("analyze_segment")
    /\ Len(stat_call.games) = 3
    /\ stat_call.result.wins = 3
    /\ stat_call.min_sample = 15
    /\ ~stat_call.result.sample_sufficient

\* C19: analyze_game_rigorous recommends a stake only when the overall sample
\* clears its minimum and the Wilson lower bound of the prediction is strictly
\* above 52.4%; 'large' also needs two positive factors and no negative one
C19_StakeNeedsEdge ==
    Called("analyze_game_rigorous") =>
        LET r == stat_call.result
            overall == stat_call.segment_stats["overall"]
        IN  /\ r.recommended_bet # "pass" =>
                 /\ overall.total >= overall.min_sample
                 /\ overall.sample_sufficient
                 /\ r.ci_lower > 5240
                 /\ r.ci_lower <= wilson_confidence_interval(overall.wins, overall.total)[1]
            /\ r.recommended_bet = "large" =>
                 /\ Len(r.positive_factors) >= 2
                 /\ Len(r.negative_factors) = 0

C19_Witness ==
    /\ Called("analyze_game_rigorous")
    /\ stat_call.result.recommended_bet = "large"

\* a stake is recommended although a negative factor applies
C19_StakeDespiteNegative ==
    /\ Called("analyze_game_rigorous")
    /\ stat_call.result.recommended_bet = "medium"
    /\ Len(stat_call.result.positive_factors) >= 2
    /\ Len(stat_call.result.negative_factors) > 0

\* a small stake is recommended
C19_SmallStake ==
    /\ Called("analyze_game_rigorous")
    /\ stat_call.result.recommended_bet = "small"

\* the segments analyze_game_rigorous consults for a game
Consulted(game) ==
    { IF game.isHome THEN "home" ELSE "road",
      TierKey(classify_opponent(game.opponentNetRating)) }
    \cup (IF game.isBackToBack THEN { "b2b" } ELSE {})

\* C20: a segment whose sample_sufficient is False adds no positive factor,
\* no negative factor and no adjustment in analyze_game_rigorous, and is
\* reported among the uncertain factors
C20_InsufficientStaysUncertain ==
    Called("analyze_game_rigorous") =>
        LET r == stat_call.result
        IN  \A k \in Consulted(stat_call.game) :
              ~stat_call.segment_stats[k].sample_sufficient =>
                  /\ k \notin RangeOf(r.positive_factors)
                  /\ k \notin RangeOf(r.negative_factors)
                  /\ \A i \in 1..Len(r.adjustments) : r.adjustments[i].segment # k
                  /\ k \in RangeOf(r.uncertain_factors)

C20_Witness ==
    /\ Called("analyze_game_rigorous")
    /\ Len(stat_call.result.positive_factors) > 0
    /\ \E k \in Consulted(stat_call.game) :
         /\ ~stat_call.segment_stats[k].sample_sufficient
         /\ stat_call.segment_stats[k].ci_lower > 5240
         /\ k \in RangeOf(stat_call.result.uncertain_factors)

\* the exceptions that end a run
Raised == { "ValueError", "ZeroDivisionError", "KeyError" }

(* C21: no input is fatal to a backtest run: when no game yields a          *)
(* prediction, or every predicted game is a tie, run_backtest followed by   *)
(* main completes with an empty or insufficient-data outcome and does not   *)
(* raise.                                                                   *)
C21_NoFatalInput == outcome \notin Raised

\* the runs of C21 that do end well: some predicted game has a winner
C21_RunWithWinnerEnds ==
    (driver = "M" /\ outcome # "running"
       /\ \E i \in 1..Len(results) : results[i].actual_margin # 0)
      => outcome = "saved"

(* C22: whenever a game is folded into a TeamState, the value appended to   *)
(* the team's recent-game window is the team's points-for minus             *)
(* points-against in that game, in every branch of run_backtest.            *)
C22_FoldedValueIsMargin ==
    (run_mode = "single" /\ driver \in { "B", "M" }) =>
      \A t \in DOMAIN team_states :
        LET h == TeamHistory(t)
            w == team_states[t].games
        IN  /\ Len(w) <= Len(h)
            /\ \A i \in 1..Len(w) :
                 w[i].net_rating = h[Len(h) - Len(w) + i].net_rating

\* what does hold: a game folded after both teams have MIN_HISTORY games, and
\* every game of backtest.py, enters points-for minus points-against
C22_FullMarginOnceHistory ==
    (run_mode = "single" /\ driver \in { "B", "M" }) =>
      \A t \in DOMAIN team_states :
        LET h == TeamHistory(t)
            w == team_states[t].games
        IN  \A i \in 1..Len(w) :
              LET j == Len(h) - Len(w) + i
              IN  \/ w[i].net_rating = h[j].net_rating
                  \/ driver = "M" /\ 2 * w[i].net_rating = h[j].net_rating

\* the spread of game g's own data: the market spread quoted for g on its
\* date, or else the estimate from the two teams' Elo just before g
OwnSpread(g, home_state, away_state) ==
    IF Quoted(odds_feed, g) THEN MarketSpread(g)
    ELSE estimate_spread_from_teams(get_elo(home_state), get_elo(away_state))

\* backtest.py has just predicted games[idx] and not folded it yet
JustPredictedB ==
    /\ run_mode = "single" /\ driver = "B" /\ pc = "fold"
    /\ games[idx].game_id \in sampled

(* C25: the closing spread attached to a predicted game of backtest.py comes *)
(* only from that game's data: the market spread fetched for its own date,   *)
(* or an estimate from the two teams' Elo immediately before it; never a     *)
(* spread of another date or an estimate cached from an earlier meeting.     *)
C25_SpreadFromOwnGame ==
    JustPredictedB =>
      LET g == games[idx]
      IN  Last(results).closing_spread
            = RoundTenth(OwnSpread(g, team_states[g.home_team_id],
                                   team_states[g.away_team_id]))

\* a predicted game carries the market spread of a later meeting
C25_LaterDateSpreadUsed ==
    /\ JustPredictedB
    /\ Quoted(odds_feed, games[idx])
    /\ \E j \in (idx + 1)..Len(games) :
         /\ games[j].date > games[idx].date
         /\ Quoted(odds_feed, games[j])
         /\ MarketSpread(games[j]) # MarketSpread(games[idx])
         /\ Last(results).closing_spread = RoundTenth(MarketSpread(games[j]))

\* a predicted game without a market spread carries the estimate cached at an
\* earlier meeting of the same pairing
C25_CachedEstimateUsed ==
    /\ JustPredictedB
    /\ odds_feed = "none"
    /\ LET g == games[idx]
           k == MatchupKey(g.away_team_id, g.home_team_id)
       IN  /\ k \in DOMAIN spread_cache
           /\ Last(results).closing_spread = RoundTenth(spread_cache[k])
           /\ spread_cache[k]
                # estimate_spread_from_teams(get_elo(team_states[g.home_team_id]),
                                             get_elo(team_states[g.away_team_id]))

\* team t's state with its window replaced by its full game history
Uncapped(t) == [ team_states[t] EXCEPT !.games = TeamHistory(t) ]

(* C26: capping the recent-game window at 15 changes no prediction of       *)
(* backtest.py: the rolling net ratings over 4, 7 and 10 games on the capped *)
(* window equal those on the team's full history.                           *)
C26_CapKeepsRollingMeans ==
    (run_mode = "single" /\ driver = "B") =>
      \A t \in DOMAIN team_states :
        /\ \A window \in { 4, 7, 10 } :
             get_rolling_net_rating(team_states[t].games, window)
               = get_rolling_net_rating(TeamHistory(t), window)
        /\ weighted_nr_B(team_states[t]) = weighted_nr_B(Uncapped(t))
        /\ get_elo(team_states[t]) = get_elo(Uncapped(t))

C26_Witness ==
    /\ run_mode = "single" /\ driver = "B"
    /\ \E t \in DOMAIN team_states :
         /\ Len(TeamHistory(t)) > WINDOW_CAP
         /\ Len(team_states[t].games) = WINDOW_CAP
         /\ get_rolling_net_rating(TeamHistory(t), 10)
              # get_rolling_net_rating(TeamHistory(t), Len(TeamHistory(t)))

\* the scoreboard rows record_predictions reads on a day
NextThreeDays(day) == Scoreboard(day) \o Scoreboard(day + 1) \o Scoreboard(day + 2)

TrackedIds(preds) == { preds[i].game_id : i \in 1..Len(preds) }

(* C27: recording is deduplicated and idempotent: the tracker never holds   *)
(* two predictions with the same game_id, and record_predictions run again  *)
(* over the same upcoming games adds no entry.                              *)
C27_RecordOnce ==
    driver = "T" =>
      /\ \A i, j \in 1..Len(tracker) :
           tracker[i].game_id = tracker[j].game_id => i = j
      /\ \A s1, s2 \in TeamStatsSets, o1, o2 \in CurrentOddsSets :
           LET once == RecordGames(tracker, NextThreeDays(today), s1, o1)
           IN  RecordGames(once, NextThreeDays(today), s2, o2) = once

C27_Witness ==
    /\ driver = "T"
    /\ \E i \in 1..Len(tracker) : tracker[i].result = "complete"
    /\ \E k \in 1..Len(NextThreeDays(today)) :
         NextThreeDays(today)[k].game_id \in TrackedIds(tracker)
    /\ \E k \in 1..Len(NextThreeDays(today)) :
         NextThreeDays(today)[k].game_id \notin TrackedIds(tracker)
    /\ \E k \in 1..(Len(NextThreeDays(today)) - 1) :
         NextThreeDays(today)[k].game_id = NextThreeDays(today)[k + 1].game_id

\* one step of the tracker leaves every recorded prediction as it was, or
\* completes a pending one whose game is dated before today
C28_Step ==
    driver = "T" =>
      /\ Len(tracker') >= Len(tracker)
      /\ \A i \in 1..Len(tracker) :
           /\ tracker'[i].game_id = tracker[i].game_id
           /\ tracker'[i].date = tracker[i].date
           /\ tracker'[i].predicted_margin = tracker[i].predicted_margin
           /\ tracker'[i].actual_spread = tracker[i].actual_spread
           /\ tracker[i].result = "complete" => tracker'[i] = tracker[i]
           /\ tracker'[i] # tracker[i] =>
                /\ tracker[i].result = "None"
                /\ tracker'[i].result = "complete"
                /\ tracker[i].date < today

(* C28: a tracked prediction is frozen once recorded: no later run changes  *)
(* its predicted_margin or actual_spread; update_results only completes a   *)
(* pending prediction, only for a game dated strictly before today, and     *)
(* never modifies a complete one.                                           *)
C28_FrozenOnceRecorded == [][C28_Step]_vars

C28_Witness ==
    /\ driver = "T"
    /\ \E i \in 1..Len(tracker) :
         tracker[i].result = "complete" /\ tracker[i].actual_spread # None
    /\ \E i \in 1..Len(tracker) :
         tracker[i].result = "None" /\ tracker[i].date < today
    /\ \E i \in 1..Len(tracker) :
         tracker[i].result = "None" /\ tracker[i].date = today

(* C29: the sample_sufficient flag of the RigorousPrediction agrees with    *)
(* the sample_sufficient flag of the 'overall' SegmentStats it was given.   *)
C29_SampleFlagsAgree ==
    Called("analyze_game_rigorous") =>
        (stat_call.result.sample_sufficient
           <=> stat_call.segment_stats["overall"].sample_sufficient)

\* what does hold: a prediction that calls its sample sufficient was given an
\* overall segment that is sufficient
C29_PredictionFlagImpliesSegmentFlag ==
    Called("analyze_game_rigorous") =>
        (stat_call.result.sample_sufficient
           => stat_call.segment_stats["overall"].sample_sufficient)


\* the exact sum of predicted margin and spread is positive
PositiveValue(r) == r.value_float.d > 0

RoadElite(c) == c.result.opp_tier = "elite" /\ ~c.game.isHome

Stakes == { "SMALL", "MEDIUM", "LARGE", "MAX BET" }

BuzzPredicted == driver = "A" /\ pc = "done" /\ stat_call.game.spread # << >>

\* C30: with a market spread present, buzzing_predict returns PASS exactly
\* when the opponent is elite and the game is on the road, or predicted
\* margin plus spread is <= 0, and a stake in every other case
C30_PassIffRoadEliteOrNoValue ==
    BuzzPredicted =>
        /\ stat_call.result.bet_size = "PASS"
              <=> (RoadElite(stat_call) \/ ~PositiveValue(stat_call.result))
        /\ stat_call.result.bet_size \in Stakes \cup { "PASS" }

\* C30, as the code decides it: on the sign of the float sum
C30_PassIffRoadEliteOrFloatNotPositive ==
    BuzzPredicted =>
        /\ stat_call.result.bet_size = "PASS"
              <=> (RoadElite(stat_call) \/ FSign(stat_call.result.value_float) <= 0)
        /\ stat_call.result.bet_size \in Stakes \cup { "PASS" }

\* a stake on a game whose margin and spread cancel, reported with value 0.0
C30_StakeOnZeroValue ==
    /\ BuzzPredicted
    /\ stat_call.result.bet_size = "SMALL"
    /\ stat_call.result.value_float.d = 0
    /\ stat_call.result.value_score = 0
    /\ stat_call.result.predicted_margin + 5 * stat_call.game.spread[1] = 0

Sign(x) == IF x > 0 THEN 1 ELSE IF x < 0 THEN -1 ELSE 0

MarginPredicted == driver = "L" /\ pc = "done" /\ stat_call # << >>

CombinedPace(c) == c.home_team_stats.pace + c.away_team_stats.pace

\* C24: for any pair of pace values the margin after the pace correction of
\* predict_margin has the sign of the margin before it and a magnitude no
\* larger, and is unchanged when the combined pace is <= 200
C24_PaceOnlyDamps ==
    MarginPredicted =>
        /\ Sign(stat_call.after) = Sign(stat_call.before)
        /\ Abs(stat_call.after) <= Abs(stat_call.before)
        /\ CombinedPace(stat_call) <= 2000 => stat_call.after = stat_call.before

\* C24, for combined paces below 250
C24_DampsBelow250 ==
    MarginPredicted /\ CombinedPace(stat_call) < 2500 =>
        /\ Sign(stat_call.after) = Sign(stat_call.before)
        /\ Abs(stat_call.after) <= Abs(stat_call.before)
        /\ CombinedPace(stat_call) <= 2000 => stat_call.after = stat_call.before

\* a home favourite turned into an underdog by the pace correction
C24_SignFlipped ==
    /\ MarginPredicted
    /\ stat_call.before > 0
    /\ stat_call.result < 0

\* a prediction grown by the pace correction
C24_Amplified ==
    /\ MarginPredicted
    /\ Abs(stat_call.after) > Abs(stat_call.before)

\* the two seasons have the same games with the same results before game k
SameBefore(k) == \A j \in 1..(k - 1) : games[j] = games2[j]

\* C23: the prediction run_league_backtest makes for a game depends only on
\* the results of the games before it: two seasons that agree up to the game
\* get the same prediction for it
C23_NoLookAhead ==
    driver = "L" =>
        \A i \in 1..Len(results) : \A j \in 1..Len(results2) :
            /\ results[i].game_id = results2[j].game_id
            /\ SameBefore(results[i].game_id)
            => results[i].predicted_margin = results2[j].predicted_margin

\* the first game of the season predicted from statistics that hold its own result
C23_FirstGameKnowsSeason ==
    /\ driver = "L"
    /\ results # << >>
    /\ results[1].game_id = 1
    /\ team_states[games[1].home_team_id].wins + team_states[games[1].home_team_id].losses > 0

\* the league run ends without its summary
C21_LeagueSummaryMissing == driver = "L" /\ outcome = "KeyError"


====
